---- MODULE Spec2Model ----
(***************************************************************************)
(* A model of PR Monitor (github-pr-monitor): the SQLite store (db.go),    *)
(* the process start, the recheck scheduler, the repository sweep and the  *)
(* review classifier (main.go), and the notification poller with its       *)
(* one-time cleanup (notifications.go).                                    *)
(*                                                                         *)
(* Time is an integer number of clock ticks.  The store keeps its          *)
(* timestamps as RFC 3339 text, which has whole seconds only.              *)
(***************************************************************************)
EXTENDS Integers, Sequences, FiniteSets, TLC

VARIABLES
    now,            \* the wall clock (time.Now()), in ticks
    orgClients,     \* the organisations getClientForOrg finds a client for
    rows,           \* table prs: a set of rows
    rechecks,       \* table rechecks: a set of rows
    prs,            \* main.go: var prs []PRInfo, the in-memory list behind the menu
    activeRechecks, \* main.go: var activeRechecks sync.Map, as the set of its keys
    resumed,        \* onReady has returned from resumeRechecks
    workers,        \* the goroutines startRecheck and resumeRechecks start, by key
    calls,          \* the scheduleRecheck calls between their two steps, by key
    sweeps,         \* the refreshRepos calls in progress
    lastOp,         \* ghost: the store call made last, and its key
    loaded,         \* ghost: what dbLoadActivePRs returned after the store call made last
    state,          \* table state: key to value, "" where there is no row
    inbox,          \* the GitHub notification threads of the user that are unread
    poller,         \* the goroutine of notificationLoop
    statusCall,     \* the checkReviewStatus call made last: its answers and its result
    listCall,       \* the fetchRepoPRs call made last: its listing and its result
    nextPoll,       \* the priority scheduler: each repository's next-poll deadline
    ignores,        \* the ignorePR calls between their two steps, and those that returned
    boot            \* onReady's choice of polling strategy, and the one-time cleanup

dbVars == <<rows, rechecks>>

procVars == <<activeRechecks, resumed, workers, calls, sweeps>>

vars == <<now, orgClients, rows, rechecks, prs, activeRechecks, resumed, workers,
          calls, sweeps, lastOp, loaded, state, inbox, poller, statusCall, listCall,
          nextPoll, ignores, boot>>

pollVars == <<state, inbox, poller, statusCall, listCall, nextPoll, ignores, boot>>

loopVars == <<state, inbox, poller, statusCall, listCall, nextPoll, boot>>

ghostVars == <<lastOp, loaded>>

\* no deadline is set: the priority scheduler does not run
NoDeadlines == <<>>

\* no ignorePR call is under way, and since the last clearIgnored none has
\* written its row and none has returned
NoIgnores == [running |-> {}, persisted |-> {}, returned |-> {}]

-----------------------------------------------------------------------------
(* Configuration and the modelled world *)

\* config.Repos, listed in the order SQLite's ORDER BY repo and Go's < give
Repos == <<"a/x", "b/y">>

RepoSet == {Repos[i] : i \in DOMAIN Repos}

RepoRank(repo) == CHOOSE i \in DOMAIN Repos : Repos[i] = repo

\* the pull requests that exist on GitHub, as <<repo, number>>
PullRequests == {<<"a/x", 1>>, <<"a/x", 2>>, <<"b/y", 1>>}

\* the owners of the repositories (parseRepo)
AllOrgs == {"a", "b"}

Authors == {"alice"}   \* config.Authors

\* ticks per second of the clock
TicksPerSecond == 2

Second == TicksPerSecond

Minute == 60 * Second

\* time.Now().Format(time.RFC3339) and time.Parse of it: whole seconds
FormatRFC3339(t) == t - (t % Second)

-----------------------------------------------------------------------------
(* db.go: table prs *)

KeyOf(r) == <<r.repo, r.number>>

RowsOf(tbl, repo, number) == {r \in tbl : r.repo = repo /\ r.number = number}

NewRow(pr, t) ==
    [repo |-> pr.Repo, number |-> pr.Number, title |-> pr.Title,
     author |-> pr.Author, url |-> pr.URL,
     needs_review |-> pr.NeedsReview, needs_reapproval |-> pr.NeedsReapproval,
     ignored |-> FALSE, muted |-> FALSE, last_checked |-> FormatRFC3339(t)]

\* mutant: INSERT OR REPLACE, which writes the row anew and so resets its flags
dbSavePR_Replace(tbl, pr, t) ==
    (tbl \ RowsOf(tbl, pr.Repo, pr.Number)) \cup {NewRow(pr, t)}

\* mutant: a plain INSERT into a table without the primary key
dbSavePR_NoKey(tbl, pr, t) == tbl \cup {NewRow(pr, t)}

\* INSERT INTO prs (...) VALUES (..., 0, ?) ON CONFLICT (repo, number) DO UPDATE SET
\*   title, author, url, needs_review, needs_reapproval, last_checked
dbSavePR(tbl, pr, t) ==
    IF RowsOf(tbl, pr.Repo, pr.Number) # {}
    THEN {IF r.repo = pr.Repo /\ r.number = pr.Number
          THEN [r EXCEPT !.title = pr.Title, !.author = pr.Author, !.url = pr.URL,
                         !.needs_review = pr.NeedsReview,
                         !.needs_reapproval = pr.NeedsReapproval,
                         !.last_checked = FormatRFC3339(t)]
          ELSE r : r \in tbl}
    ELSE tbl \cup {NewRow(pr, t)}

\* DELETE FROM prs WHERE repo = ? AND number = ?
dbRemovePR(tbl, repo, number) == tbl \ RowsOf(tbl, repo, number)

\* mutant: the statement as it was before the muted column: ignored = 0 alone
dbRemoveRepoActivePRs_NoMuted(tbl, repo) ==
    {r \in tbl : ~(r.repo = repo /\ ~r.ignored)}

\* DELETE FROM prs WHERE repo = ? AND ignored = 0 AND muted = 0
dbRemoveRepoActivePRs(tbl, repo) ==
    {r \in tbl : ~(r.repo = repo /\ ~r.ignored /\ ~r.muted)}

\* the row an INSERT of dbIgnorePR / dbMutePR makes: the columns it names, and
\* the defaults of the schema for the others
BlankRow(repo, number, t) ==
    [repo |-> repo, number |-> number, title |-> "", author |-> "", url |-> "",
     needs_review |-> FALSE, needs_reapproval |-> FALSE,
     ignored |-> FALSE, muted |-> FALSE, last_checked |-> FormatRFC3339(t)]

\* INSERT ... VALUES (?, ?, '', '', '', 1, ?) ON CONFLICT DO UPDATE SET ignored = 1
dbIgnorePR(tbl, repo, number, t) ==
    IF RowsOf(tbl, repo, number) # {}
    THEN {IF r.repo = repo /\ r.number = number THEN [r EXCEPT !.ignored = TRUE] ELSE r
          : r \in tbl}
    ELSE tbl \cup {[BlankRow(repo, number, t) EXCEPT !.ignored = TRUE]}

\* DELETE FROM prs WHERE ignored = 1
dbClearIgnored(tbl) == {r \in tbl : ~r.ignored}

\* SELECT ignored FROM prs WHERE repo = ? AND number = ?  (no row: false)
dbIsIgnored(tbl, repo, number) == \E r \in RowsOf(tbl, repo, number) : r.ignored

\* SELECT COUNT(*) FROM prs WHERE ignored = 1
dbIgnoredCount(tbl) == Cardinality({r \in tbl : r.ignored})

\* INSERT ... VALUES (?, ?, '', '', '', 1, ?) ON CONFLICT DO UPDATE SET muted = 1
dbMutePR(tbl, repo, number, t) ==
    IF RowsOf(tbl, repo, number) # {}
    THEN {IF r.repo = repo /\ r.number = number THEN [r EXCEPT !.muted = TRUE] ELSE r
          : r \in tbl}
    ELSE tbl \cup {[BlankRow(repo, number, t) EXCEPT !.muted = TRUE]}

\* UPDATE prs SET muted = 0 WHERE repo = ? AND number = ?
dbUnmutePR(tbl, repo, number) ==
    {IF r.repo = repo /\ r.number = number THEN [r EXCEPT !.muted = FALSE] ELSE r
     : r \in tbl}

\* SELECT muted FROM prs WHERE repo = ? AND number = ?  (no row: false)
dbIsMuted(tbl, repo, number) == \E r \in RowsOf(tbl, repo, number) : r.muted

\* SELECT COUNT(*) FROM prs WHERE muted = 1
dbMutedCount(tbl) == Cardinality({r \in tbl : r.muted})

\* DELETE FROM prs WHERE muted = 1
dbClearMuted(tbl) == {r \in tbl : ~r.muted}

\* ORDER BY repo, number
RowBefore(r, s) ==
    \/ RepoRank(r.repo) < RepoRank(s.repo)
    \/ r.repo = s.repo /\ r.number < s.number

RowNotAfter(r, s) == ~RowBefore(s, r)

RECURSIVE OrderRows(_)
OrderRows(S) ==
    IF S = {} THEN <<>>
    ELSE LET first == CHOOSE r \in S : \A s \in S : RowNotAfter(r, s)
         IN  <<first>> \o OrderRows(S \ {first})

\* rows.Scan into PRInfo: the seven columns the SELECT names
ScanPRInfo(r) ==
    [Repo |-> r.repo, Number |-> r.number, Title |-> r.title, Author |-> r.author,
     URL |-> r.url, NeedsReview |-> r.needs_review,
     NeedsReapproval |-> r.needs_reapproval]

\* mutant: the query as it was before the muted column: ignored = 0 alone
ActiveRows_NoMuted(tbl) == {r \in tbl : ~r.ignored}

\* WHERE ignored = 0 AND muted = 0
ActiveRows(tbl) == {r \in tbl : ~r.ignored /\ ~r.muted}

\* SELECT ... FROM prs WHERE ignored = 0 AND muted = 0 ORDER BY repo, number
dbLoadActivePRs(tbl) ==
    LET ordered == OrderRows(ActiveRows(tbl))
    IN  [i \in DOMAIN ordered |-> ScanPRInfo(ordered[i])]

-----------------------------------------------------------------------------
(* db.go: table rechecks *)

\* INSERT INTO rechecks ... ON CONFLICT (repo, number) DO UPDATE SET started_at
dbAddRecheck(tbl, repo, number, t) ==
    {r \in tbl : ~(r.repo = repo /\ r.number = number)}
        \cup {[repo |-> repo, number |-> number, started_at |-> FormatRFC3339(t)]}

\* mutant: the DELETE finds no row
dbRemoveRecheck_Keep(tbl, repo, number) == tbl

\* DELETE FROM rechecks WHERE repo = ? AND number = ?
dbRemoveRecheck(tbl, repo, number) ==
    {r \in tbl : ~(r.repo = repo /\ r.number = number)}

\* SELECT repo, number, started_at FROM rechecks
dbLoadRechecks(tbl) == tbl

-----------------------------------------------------------------------------
(* main.go: the recheck schedule *)

\* mutant: the last loop of func init() runs five times
recheckSchedule_FiveFives ==
    [i \in 1..10 |-> 1 * Minute] \o [i \in 1..10 |-> 2 * Minute]
        \o [i \in 1..5 |-> 5 * Minute]

\* func init(): 10 times 1 minute, 10 times 2 minutes, 6 times 5 minutes
recheckSchedule ==
    [i \in 1..10 |-> 1 * Minute] \o [i \in 1..10 |-> 2 * Minute]
        \o [i \in 1..6 |-> 5 * Minute]

RECURSIVE SumTo(_, _)
SumTo(seq, n) == IF n = 0 THEN 0 ELSE SumTo(seq, n - 1) + seq[n]

recheckTotalDuration == SumTo(recheckSchedule, Len(recheckSchedule))

\* parseRepo: the owner of "owner/name"
Owner(repo) == IF repo = "a/x" THEN "a" ELSE "b"

\* getClientForOrg(owner) # nil
HasClient(repo) == Owner(repo) \in orgClients

-----------------------------------------------------------------------------
(* main.go: the goroutines of startRecheck and resumeRechecks *)

NoWorkers == [k \in PullRequests |-> <<>>]

\* per key: the calls before their dbAddRecheck, and those before their startRecheck
NoCalls == [k \in PullRequests |-> <<0, 0>>]

\* a goroutine before its first step.  checks and e0 are ghosts: the checks
\* made so far, as <<index in the schedule, catch-up>>, and the elapsed time
\* runRecheckLoop began with
NewWorker(kind, startedAt) ==
    [kind |-> kind, startedAt |-> startedAt, pc |-> "start", i |-> 1,
     cumulative |-> 0, elapsed |-> 0, didCatchUp |-> FALSE, wakeAt |-> 0,
     out |-> "", dbPRs |-> <<>>, checks |-> <<>>, e0 |-> 0]

\* the for loop of runRecheckLoop from iteration w.i on, up to its next
\* recheckPR, its next time.Sleep (called at time t) or its end
RECURSIVE LoopFrom(_, _)
LoopFrom(w, t) ==
    IF w.i > Len(recheckSchedule)
    THEN [w EXCEPT !.pc = "exit"]
    ELSE LET interval == recheckSchedule[w.i]
             cum == w.cumulative + interval
         IN  IF cum <= w.elapsed
             THEN IF ~w.didCatchUp /\ cum + interval > w.elapsed
                  THEN [w EXCEPT !.cumulative = cum, !.i = @ + 1, !.didCatchUp = TRUE,
                                 !.pc = "check",
                                 !.checks = Append(@, <<w.i, TRUE>>)]
                  ELSE LoopFrom([w EXCEPT !.cumulative = cum, !.i = @ + 1], t)
             ELSE [w EXCEPT !.cumulative = cum, !.i = @ + 1, !.pc = "sleep",
                            !.wakeAt = t + (cum - w.elapsed)]

\* mutant: the value recheckPR returns is not looked at
AfterRecheck_NeverStop(w, stop, t) ==
    IF w.kind = "final" THEN [w EXCEPT !.pc = "exit"] ELSE LoopFrom(w, t)

\* where a goroutine goes when recheckPR returns stop
AfterRecheck(w, stop, t) ==
    IF stop \/ w.kind = "final" THEN [w EXCEPT !.pc = "exit"] ELSE LoopFrom(w, t)

Put(k, n, w) == workers' = [workers EXCEPT ![k][n] = w]

Without(seq, n) == SubSeq(seq, 1, n - 1) \o SubSeq(seq, n + 1, Len(seq))

RecheckFrame == UNCHANGED <<orgClients, resumed, calls, sweeps, ghostVars, pollVars>>

\* the goroutine's first statements: getClientForOrg, and for a schedule
\* worker elapsed := time.Since(startedAt) and the loop up to its first effect
WorkerStart(k, n) ==
    LET w == workers[k][n] IN
    /\ w.pc = "start"
    /\ Put(k, n, IF ~HasClient(k[1]) THEN [w EXCEPT !.pc = "exit"]
                 ELSE IF w.kind = "final"
                 THEN [w EXCEPT !.pc = "check", !.checks = Append(@, <<0, FALSE>>)]
                 ELSE LoopFrom([w EXCEPT !.elapsed = now - w.startedAt,
                                         !.e0 = now - w.startedAt], now))
    /\ UNCHANGED <<now, rows, rechecks, prs, activeRechecks>>
    /\ RecheckFrame

\* mutant: time.Sleep returns at once
WorkerWake_Early(k, n) ==
    LET w == workers[k][n] IN
    /\ w.pc = "sleep"
    /\ Put(k, n, [w EXCEPT !.elapsed = now - w.startedAt, !.pc = "check",
                           !.checks = Append(@, <<w.i - 1, FALSE>>)])
    /\ UNCHANGED <<now, rows, rechecks, prs, activeRechecks>>
    /\ RecheckFrame

\* time.Sleep(waitTime) returns; elapsed = time.Since(startedAt)
WorkerWake(k, n) ==
    LET w == workers[k][n] IN
    /\ w.pc = "sleep"
    /\ now >= w.wakeAt
    /\ Put(k, n, [w EXCEPT !.elapsed = now - w.startedAt, !.pc = "check",
                           !.checks = Append(@, <<w.i - 1, FALSE>>)])
    /\ UNCHANGED <<now, rows, rechecks, prs, activeRechecks>>
    /\ RecheckFrame

\* what client.PullRequests.Get and checkReviewStatus come to: the fetch fails;
\* the pull request is not open, a draft or of another author; it needs neither
\* review nor re-approval; it needs review; it needs re-approval
FetchOutcomes == {"error", "gone", "resolved", "review", "reapproval"}

\* the PRInfo recheckPR saves
FetchedPR(k, out) ==
    [Repo |-> k[1], Number |-> k[2], Title |-> "t1", Author |-> "alice", URL |-> "u",
     NeedsReview |-> (out = "review"), NeedsReapproval |-> (out = "reapproval")]

\* recheckPR up to its store write: dbIsIgnored, PullRequests.Get, checkReviewStatus
RecheckFetch(k, n, outcomes) ==
    LET w == workers[k][n] IN
    /\ w.pc = "check"
    /\ IF dbIsIgnored(rows, k[1], k[2])
       THEN Put(k, n, AfterRecheck(w, TRUE, now))
       ELSE \E out \in outcomes :
              IF out = "error"
              THEN Put(k, n, AfterRecheck(w, FALSE, now))
              ELSE Put(k, n, [w EXCEPT !.pc = "write", !.out = out])
    /\ UNCHANGED <<now, rows, rechecks, prs, activeRechecks>>
    /\ RecheckFrame

\* recheckPR's dbRemovePR or dbSavePR
RecheckWrite(k, n) ==
    LET w == workers[k][n] IN
    /\ w.pc = "write"
    /\ rows' = IF w.out \in {"gone", "resolved"}
               THEN dbRemovePR(rows, k[1], k[2])
               ELSE dbSavePR(rows, FetchedPR(k, w.out), now)
    /\ Put(k, n, [w EXCEPT !.pc = "reload"])
    /\ UNCHANGED <<now, rechecks, prs, activeRechecks>>
    /\ RecheckFrame

\* reloadPRsFromDB: dbPRs, err := dbLoadActivePRs()
RecheckReload(k, n) ==
    LET w == workers[k][n] IN
    /\ w.pc = "reload"
    /\ Put(k, n, [w EXCEPT !.pc = "assign", !.dbPRs = dbLoadActivePRs(rows)])
    /\ UNCHANGED <<now, rows, rechecks, prs, activeRechecks>>
    /\ RecheckFrame

\* reloadPRsFromDB: prs = dbPRs under prsMutex; recheckPR returns
RecheckAssign(k, n) ==
    LET w == workers[k][n] IN
    /\ w.pc = "assign"
    /\ prs' = w.dbPRs
    /\ Put(k, n, AfterRecheck([w EXCEPT !.dbPRs = <<>>, !.out = ""],
                              w.out \in {"gone", "resolved"}, now))
    /\ UNCHANGED <<now, rows, rechecks, activeRechecks>>
    /\ RecheckFrame

\* defer dbRemoveRecheck(repo, number), the goroutine's first deferred call;
\* a final-check goroutine has no other and ends
WorkerRemoveTask(k, n) ==
    LET w == workers[k][n] IN
    /\ w.pc = "exit"
    /\ rechecks' = dbRemoveRecheck(rechecks, k[1], k[2])
    /\ workers' = [workers EXCEPT
                     ![k] = IF w.kind = "final" THEN Without(@, n)
                            ELSE [@ EXCEPT ![n].pc = "unregister"]]
    /\ UNCHANGED <<now, rows, prs, activeRechecks>>
    /\ RecheckFrame

\* defer activeRechecks.Delete(key), and the goroutine ends
WorkerUnregister(k, n) ==
    LET w == workers[k][n] IN
    /\ w.pc = "unregister"
    /\ activeRechecks' = activeRechecks \ {k}
    /\ workers' = [workers EXCEPT ![k] = Without(@, n)]
    /\ UNCHANGED <<now, rows, rechecks, prs>>
    /\ RecheckFrame

\* mutant: Load, then Store, so that a caller never finds the key taken
LoadOrStore_Blind(set, k) == FALSE

\* activeRechecks.LoadOrStore(key, true): loaded
LoadOrStore(set, k) == k \in set

\* startRecheck(repo, number, startedAt), as the new values of the guard set
\* and of the goroutines
startRecheck(guard, ws, k, startedAt) ==
    IF LoadOrStore(guard, k)
    THEN <<guard, ws>>
    ELSE <<guard \cup {k}, [ws EXCEPT ![k] = Append(@, NewWorker("schedule", startedAt))]>>

\* the scheduleRecheck calls a key can have in progress at a time
MaxCalls == 2

\* handlePRMenuClicks: a click on a pull request of the menu: go scheduleRecheck(pr)
ClickOpen(k) ==
    /\ resumed
    /\ \E i \in DOMAIN prs : prs[i].Repo = k[1] /\ prs[i].Number = k[2]
    /\ calls[k][1] + calls[k][2] < MaxCalls
    /\ calls' = [calls EXCEPT ![k][1] = @ + 1]
    /\ UNCHANGED <<now, orgClients, rows, rechecks, prs, activeRechecks, resumed,
                   workers, sweeps, ghostVars, pollVars>>

\* scheduleRecheck(pr): dbAddRecheck(pr.Repo, pr.Number)
ScheduleRecheckAdd(k) ==
    /\ calls[k][1] > 0
    /\ rechecks' = dbAddRecheck(rechecks, k[1], k[2], now)
    /\ calls' = [calls EXCEPT ![k] = <<@[1] - 1, @[2] + 1>>]
    /\ UNCHANGED <<now, orgClients, rows, prs, activeRechecks, resumed, workers,
                   sweeps, ghostVars, pollVars>>

\* scheduleRecheck(pr): startRecheck(pr.Repo, pr.Number, time.Now())
ScheduleRecheckStart(k) ==
    /\ calls[k][2] > 0
    /\ LET started == startRecheck(activeRechecks, workers, k, now)
       IN  /\ activeRechecks' = started[1]
           /\ workers' = started[2]
    /\ calls' = [calls EXCEPT ![k][2] = @ - 1]
    /\ UNCHANGED <<now, orgClients, rows, rechecks, prs, resumed, sweeps, ghostVars, pollVars>>

\* mutant: the age test dropped, every entry handed to startRecheck
RECURSIVE ResumeEntries_NoAgeTest(_, _, _, _)
ResumeEntries_NoAgeTest(entries, guard, ws, t) ==
    IF entries = {} THEN <<guard, ws>>
    ELSE LET e == CHOOSE x \in entries : TRUE
             next == startRecheck(guard, ws, <<e.repo, e.number>>, e.started_at)
         IN  ResumeEntries_NoAgeTest(entries \ {e}, next[1], next[2], t)

\* resumeRechecks over the entries dbLoadRechecks returns, in any order
RECURSIVE ResumeEntries(_, _, _, _)
ResumeEntries(entries, guard, ws, t) ==
    IF entries = {} THEN <<guard, ws>>
    ELSE LET e == CHOOSE x \in entries : TRUE
             k == <<e.repo, e.number>>
             next == IF t - e.started_at > recheckTotalDuration
                     THEN <<guard, [ws EXCEPT ![k] = Append(@, NewWorker("final", e.started_at))]>>
                     ELSE startRecheck(guard, ws, k, e.started_at)
         IN  ResumeEntries(entries \ {e}, next[1], next[2], t)

resumeRechecks ==
    /\ ~resumed
    /\ LET started == ResumeEntries(dbLoadRechecks(rechecks), activeRechecks, workers, now)
       IN  /\ activeRechecks' = started[1]
           /\ workers' = started[2]
    /\ resumed' = TRUE
    /\ UNCHANGED <<now, orgClients, rows, rechecks, prs, calls, sweeps, ghostVars, pollVars>>

-----------------------------------------------------------------------------
(* main.go: refreshRepos, the sweep over config.Repos *)

\* the frame of refreshRepos: repos, newPRsFromRepos, the two loop positions,
\* the repositories whose PullRequests.List returned an error, and the keys
\* whose dbSavePR returned an error
NewSweep(repos) ==
    [pc |-> "fetch", repos |-> repos, i |-> 1, newPRsFromRepos |-> <<>>, j |-> 1,
     failed |-> {}, unsaved |-> {}]

\* what PullRequests.List and checkReviewStatus can answer for a repository:
\* an error, or the set of its pull request numbers that pass the author, age
\* and draft filters and need a review
Numbers(repo) == {k[2] : k \in {x \in PullRequests : x[1] = repo}}

Listings(repo) ==
    {[err |-> TRUE, open |-> {}]} \cup {[err |-> FALSE, open |-> S] : S \in SUBSET Numbers(repo)}

RECURSIVE InNumberOrder(_, _)
InNumberOrder(repo, S) ==
    IF S = {} THEN <<>>
    ELSE LET m == CHOOSE x \in S : \A y \in S : x <= y
         IN  <<FetchedPR(<<repo, m>>, "review")>> \o InNumberOrder(repo, S \ {m})

\* fetchRepoPRs: nothing without a client or on a listing error; otherwise the
\* listed pull requests that the store does not hold as ignored
fetchRepoPRs(tbl, repo, listing) ==
    IF ~HasClient(repo) \/ listing.err THEN <<>>
    ELSE InNumberOrder(repo, {m \in listing.open : ~dbIsIgnored(tbl, repo, m)})

\* sort.Slice of refreshRepos: by Repo, then by Number, both ascending
RECURSIVE SortPRs(_)
SortPRs(list) ==
    IF list = <<>> THEN <<>>
    ELSE LET Less(p, q) == \/ p.Repo # q.Repo /\ RepoRank(p.Repo) < RepoRank(q.Repo)
                           \/ p.Repo = q.Repo /\ p.Number < q.Number
             m == CHOOSE a \in DOMAIN list : \A b \in DOMAIN list : ~Less(list[b], list[a])
         IN  <<list[m]>> \o SortPRs(Without(list, m))

\* mutant: the cached entries of the other repositories are not kept
MergePRs_NewOnly(cache, repos, new) == SortPRs(new)

\* the merged list: the cached entries of repositories outside the batch, then
\* the new entries, sorted
MergePRs(cache, repos, new) ==
    LET repoSet == {repos[x] : x \in DOMAIN repos}
        kept == SelectSeq(cache, LAMBDA p : p.Repo \notin repoSet)
    IN  SortPRs(kept \o new)

SweepFrame == UNCHANGED <<orgClients, rechecks, activeRechecks, resumed, workers, calls, ghostVars, pollVars>>

MaxSweeps == 1

\* refreshRepos(repos) is called
StartRefresh(repos) ==
    /\ Len(sweeps) < MaxSweeps
    /\ sweeps' = Append(sweeps, NewSweep(repos))
    /\ UNCHANGED <<now, rows, prs>>
    /\ SweepFrame

\* go refreshAllRepos(), or refreshAllRepos() in one of the loops
SweepStart == StartRefresh(Repos)

\* one turn of the first loop: fetchRepoPRs for repos[i]
SweepFetch(s) ==
    LET sw == sweeps[s]
        repo == sw.repos[sw.i]
        last == sw.i = Len(sw.repos)
    IN
    /\ sw.pc = "fetch"
    /\ \E listing \in Listings(repo) :
         sweeps' = [sweeps EXCEPT ![s] =
           [sw EXCEPT !.newPRsFromRepos = @ \o fetchRepoPRs(rows, repo, listing),
                      !.failed = IF HasClient(repo) /\ listing.err
                                 THEN @ \cup {repo} ELSE @,
                      !.i = IF last THEN 1 ELSE @ + 1,
                      !.pc = IF last THEN "clear" ELSE "fetch"]]
    /\ UNCHANGED <<now, rows, prs>>
    /\ SweepFrame

\* one turn of the second loop: dbRemoveRepoActivePRs(repos[i])
SweepClear(s) ==
    LET sw == sweeps[s]
        last == sw.i = Len(sw.repos)
    IN
    /\ sw.pc = "clear"
    /\ rows' = dbRemoveRepoActivePRs(rows, sw.repos[sw.i])
    /\ sweeps' = [sweeps EXCEPT ![s] =
         [sw EXCEPT !.i = IF last THEN 1 ELSE @ + 1,
                    !.pc = IF ~last THEN "clear"
                           ELSE IF sw.newPRsFromRepos = <<>> THEN "merge" ELSE "save"]]
    /\ UNCHANGED <<now, prs>>
    /\ SweepFrame

\* one turn of the third loop: dbSavePR(newPRsFromRepos[j])
SweepSave(s) ==
    LET sw == sweeps[s]
        last == sw.j = Len(sw.newPRsFromRepos)
    IN
    /\ sw.pc = "save"
    /\ rows' = dbSavePR(rows, sw.newPRsFromRepos[sw.j], now)
    /\ sweeps' = [sweeps EXCEPT ![s] =
         [sw EXCEPT !.j = @ + 1, !.pc = IF last THEN "merge" ELSE "save"]]
    /\ UNCHANGED <<now, prs>>
    /\ SweepFrame

\* a turn of the second loop in which dbRemoveRepoActivePRs returns an error:
\* the error is logged and the loop goes on
SweepClearFails(s) ==
    LET sw == sweeps[s]
        last == sw.i = Len(sw.repos)
    IN
    /\ sw.pc = "clear"
    /\ sweeps' = [sweeps EXCEPT ![s] =
         [sw EXCEPT !.i = IF last THEN 1 ELSE @ + 1,
                    !.pc = IF ~last THEN "clear"
                           ELSE IF sw.newPRsFromRepos = <<>> THEN "merge" ELSE "save"]]
    /\ UNCHANGED <<now, rows, prs>>
    /\ SweepFrame

\* a turn of the third loop in which dbSavePR returns an error: the error is
\* logged and the loop goes on
SweepSaveFails(s) ==
    LET sw == sweeps[s]
        last == sw.j = Len(sw.newPRsFromRepos)
        pr == sw.newPRsFromRepos[sw.j]
    IN
    /\ sw.pc = "save"
    /\ sweeps' = [sweeps EXCEPT ![s] =
         [sw EXCEPT !.j = @ + 1, !.pc = IF last THEN "merge" ELSE "save",
                    !.unsaved = @ \cup {<<pr.Repo, pr.Number>>}]]
    /\ UNCHANGED <<now, rows, prs>>
    /\ SweepFrame

\* the merge under prsMutex; refreshRepos returns
SweepMerge(s) ==
    LET sw == sweeps[s] IN
    /\ sw.pc = "merge"
    /\ prs' = MergePRs(prs, sw.repos, sw.newPRsFromRepos)
    /\ sweeps' = [sweeps EXCEPT ![s] = [sw EXCEPT !.pc = "done"]]
    /\ UNCHANGED <<now, rows>>
    /\ SweepFrame

-----------------------------------------------------------------------------
(* main.go: ignorePR and clearIgnored, from the menu *)

IgnoreFrame ==
    UNCHANGED <<now, orgClients, rechecks, activeRechecks, resumed, workers, calls,
                ghostVars, loopVars>>

\* handlePRMenuClicks: a click on Ignore of a pull request of the menu;
\* ignorePR(key): dbIgnorePR(repo, number)
IgnoreStore(k) ==
    /\ resumed
    /\ \E i \in DOMAIN prs : prs[i].Repo = k[1] /\ prs[i].Number = k[2]
    /\ k \notin ignores.running
    /\ rows' = dbIgnorePR(rows, k[1], k[2], now)
    /\ ignores' = [ignores EXCEPT !.running = @ \cup {k}, !.persisted = @ \cup {k}]
    /\ UNCHANGED <<prs, sweeps>>
    /\ IgnoreFrame

\* ignorePR(key): the entries of prs whose Key() is not key
WithoutKey(list, k) == SelectSeq(list, LAMBDA p : ~(p.Repo = k[1] /\ p.Number = k[2]))

\* ignorePR(key): prs = filtered under prsMutex; ignorePR returns
IgnoreFilter(k) ==
    /\ k \in ignores.running
    /\ prs' = WithoutKey(prs, k)
    /\ ignores' = [ignores EXCEPT !.running = @ \ {k},
                                  !.returned = @ \cup ({k} \cap ignores.persisted)]
    /\ UNCHANGED <<rows, sweeps>>
    /\ IgnoreFrame

\* clearIgnored: dbClearIgnored(), then go refreshAllRepos()
clearIgnored ==
    /\ resumed
    /\ Len(sweeps) < MaxSweeps
    /\ rows' = dbClearIgnored(rows)
    /\ sweeps' = Append(sweeps, NewSweep(Repos))
    /\ ignores' = [ignores EXCEPT !.persisted = {}, !.returned = {}]
    /\ UNCHANGED prs
    /\ IgnoreFrame

-----------------------------------------------------------------------------
(* The priority scheduler: per-repository deadlines with jitter *)

\* the tier of each repository
TierOf == [repo \in RepoSet |-> IF repo = "a/x" THEN "high" ELSE "medium"]

\* the base poll interval of each tier
PollIntervals == [high |-> 2 * Minute, medium |-> 3 * Minute]

PollIntervalOf(repo) == PollIntervals[TierOf[repo]]

\* the scheduler's tick
SchedulerTickInterval == 30 * Second

\* the jitter, in percent of the interval
JitterPercent == 20

\* the random draws: the fractions r / JitterSteps for r in -JitterSteps..JitterSteps
JitterSteps == 2

\* a / b cut towards zero, as the conversion of a float to a duration is
Trunc(a, b) == IF a >= 0 THEN a \div b ELSE -((-a) \div b)

\* mutant: the jitter is twice as wide
Jitter_Wide(interval, r) == Trunc(interval * 2 * JitterPercent * r, 100 * JitterSteps)

\* the jitter of a draw: the fraction r / JitterSteps of 20% of the interval
Jitter(interval, r) == Trunc(interval * JitterPercent * r, 100 * JitterSteps)

\* now + interval +/- 20% jitter
NextDeadline(t, interval, r) == t + interval + Jitter(interval, r)

\* the repositories of a tier, in the order of the configuration
RECURSIVE InRepoOrder(_)
InRepoOrder(S) ==
    IF S = {} THEN <<>>
    ELSE LET m == CHOOSE x \in S : \A y \in S : RepoRank(x) <= RepoRank(y)
         IN  <<m>> \o InRepoOrder(S \ {m})

\* the initial deadlines: the i-th repository of the n of its tier is offset
\* by i * interval / (n + 1)
InitialDeadlines(t) ==
    [repo \in RepoSet |->
       LET tier == InRepoOrder({x \in RepoSet : TierOf[x] = TierOf[repo]})
           i == CHOOSE x \in DOMAIN tier : tier[x] = repo
       IN  t + (i * PollIntervalOf(repo)) \div (Len(tier) + 1)]

\* the scheduler's tick: the repositories past due are enqueued for a sweep
\* and each gets its next deadline
SchedulerTick ==
    LET due == {repo \in RepoSet : nextPoll.deadline[repo] <= now} IN
    /\ nextPoll # NoDeadlines
    /\ now >= nextPoll.tickAt
    /\ \A s \in DOMAIN sweeps : sweeps[s].pc = "done"
    /\ \E draw \in [due -> -JitterSteps..JitterSteps] :
         nextPoll' = [tickAt |-> now + SchedulerTickInterval,
                      deadline |-> [repo \in RepoSet |->
                         IF repo \in due
                         THEN NextDeadline(now, PollIntervalOf(repo), draw[repo])
                         ELSE nextPoll.deadline[repo]]]
    /\ sweeps' = IF due = {} THEN sweeps ELSE <<NewSweep(InRepoOrder(due))>>
    /\ UNCHANGED <<now, orgClients, rows, rechecks, prs, activeRechecks, resumed, workers,
                   calls, ghostVars, state, inbox, poller, statusCall, listCall, ignores,
                   boot>>

\* the time to the scheduler's next tick passes
SchedulerWait(horizon) ==
    /\ nextPoll # NoDeadlines
    /\ now < nextPoll.tickAt
    /\ nextPoll.tickAt <= horizon
    /\ \A s \in DOMAIN sweeps : sweeps[s].pc = "done"
    /\ now' = nextPoll.tickAt
    /\ UNCHANGED <<orgClients, rows, rechecks, prs, procVars, ghostVars, pollVars>>

-----------------------------------------------------------------------------
(* main.go: checkReviewStatus, the classifier *)

\* the first submission time there is; the zero time.Time is not after it
ZeroTime == 0

Reviewers == {"r1", "r2"}

ReviewStates == {"APPROVED", "CHANGES_REQUESTED"}

\* mutant: every review kept, not only the latest of each reviewer
RECURSIVE LatestReviews_All(_)
LatestReviews_All(reviews) ==
    IF reviews = <<>> THEN {}
    ELSE LatestReviews_All(SubSeq(reviews, 1, Len(reviews) - 1)) \cup {reviews[Len(reviews)]}

\* the map latestReviews, as the set of its values: a review replaces the one
\* held for its user when it was submitted after it
RECURSIVE LatestReviews(_)
LatestReviews(reviews) ==
    IF reviews = <<>> THEN {}
    ELSE LET m == LatestReviews(SubSeq(reviews, 1, Len(reviews) - 1))
             review == reviews[Len(reviews)]
             held == {e \in m : e.user = review.user}
         IN  IF held = {} THEN m \cup {review}
             ELSE IF \E existing \in held : review.at > existing.at
                  THEN (m \ held) \cup {review}
                  ELSE m

\* hasApproval
HasApproval(latest) == \E review \in latest : review.state = "APPROVED"

\* latestApprovalTime: it starts as the zero time and takes each later approval time
LatestApprovalTime(latest) ==
    LET times == {review.at : review \in {e \in latest : e.state = "APPROVED"}} \cup {ZeroTime}
    IN  CHOOSE t \in times : \A u \in times : u <= t

\* mutant: a commit made at the approval time counts as made after it
CommitAfter_OrEqual(commits, t) == \E c \in DOMAIN commits : commits[c] >= t

\* mutant: only the commit listed first is looked at
CommitAfter_FirstOnly(commits, t) == commits # <<>> /\ commits[1] > t

\* the loop over the commits: commitDate.After(latestApprovalTime)
CommitAfter(commits, t) == \E c \in DOMAIN commits : commits[c] > t

\* mutant: a failure of ListCommits is treated like one of ListReviews
checkReviewStatus_CommitsFailOpen(reviewsErr, reviews, commitsErr, commits) ==
    IF reviewsErr THEN <<TRUE, FALSE>>
    ELSE IF Len(reviews) = 0 THEN <<TRUE, FALSE>>
    ELSE LET latestReviews == LatestReviews(reviews) IN
         IF ~HasApproval(latestReviews) THEN <<TRUE, FALSE>>
         ELSE IF commitsErr THEN <<TRUE, FALSE>>
         ELSE IF CommitAfter(commits, LatestApprovalTime(latestReviews)) THEN <<FALSE, TRUE>>
         ELSE <<FALSE, FALSE>>

\* mutant: a commit after the approval asks for a review as well
checkReviewStatus_ReviewToo(reviewsErr, reviews, commitsErr, commits) ==
    IF reviewsErr THEN <<TRUE, FALSE>>
    ELSE IF Len(reviews) = 0 THEN <<TRUE, FALSE>>
    ELSE LET latestReviews == LatestReviews(reviews) IN
         IF ~HasApproval(latestReviews) THEN <<TRUE, FALSE>>
         ELSE IF commitsErr THEN <<FALSE, FALSE>>
         ELSE IF CommitAfter(commits, LatestApprovalTime(latestReviews)) THEN <<TRUE, TRUE>>
         ELSE <<FALSE, FALSE>>

\* checkReviewStatus: <<needsReview, needsReapproval>>, from what ListReviews
\* and ListCommits answer
checkReviewStatus(reviewsErr, reviews, commitsErr, commits) ==
    IF reviewsErr THEN <<TRUE, FALSE>>
    ELSE IF Len(reviews) = 0 THEN <<TRUE, FALSE>>
    ELSE LET latestReviews == LatestReviews(reviews) IN
         IF ~HasApproval(latestReviews) THEN <<TRUE, FALSE>>
         ELSE IF commitsErr THEN <<FALSE, FALSE>>
         ELSE IF CommitAfter(commits, LatestApprovalTime(latestReviews)) THEN <<FALSE, TRUE>>
         ELSE <<FALSE, FALSE>>

NoStatusCall ==
    [reviewsErr |-> FALSE, reviews |-> <<>>, commitsErr |-> FALSE, commits |-> <<>>,
     result |-> <<>>]

\* the call of checkReviewStatus that statusCall holds the answers for
CheckReviewStatus ==
    /\ statusCall.result = <<>>
    /\ statusCall' = [statusCall EXCEPT !.result =
         checkReviewStatus(statusCall.reviewsErr, statusCall.reviews,
                           statusCall.commitsErr, statusCall.commits)]
    /\ UNCHANGED <<now, orgClients, rows, rechecks, prs, procVars, ghostVars,
                   state, inbox, poller, listCall, nextPoll, ignores, boot>>

-----------------------------------------------------------------------------
(* main.go: fetchRepoPRs, on a listing of pull requests given in full *)

\* config.MaxAgeDays, at its default
MaxAgeDays == 3

\* maxAge := time.Duration(config.MaxAgeDays) * 24 * time.Hour
maxAge == MaxAgeDays * 24 * 60 * Minute

\* cutoff := time.Now().Add(-maxAge)
Cutoff(t) == t - maxAge

\* the PRInfo fetchRepoPRs appends
ListedPR(repo, pr, flags) ==
    [Repo |-> repo, Number |-> pr.number, Title |-> "t1", Author |-> pr.author, URL |-> "u",
     NeedsReview |-> flags[1], NeedsReapproval |-> flags[2]]

\* mutant: drafts are not passed over
RECURSIVE FilterPulls_KeepDrafts(_, _, _, _, _)
FilterPulls_KeepDrafts(tbl, repo, authors, cutoff, pulls) ==
    IF pulls = <<>> THEN <<>>
    ELSE LET pr == Head(pulls)
             rest == FilterPulls_KeepDrafts(tbl, repo, authors, cutoff, Tail(pulls))
             flags == checkReviewStatus(pr.status[1], pr.status[2], pr.status[3], pr.status[4])
         IN  IF pr.author \notin authors THEN rest
             ELSE IF pr.createdAt < cutoff THEN rest
             ELSE IF dbIsIgnored(tbl, repo, pr.number) THEN rest
             ELSE IF flags[1] \/ flags[2] THEN <<ListedPR(repo, pr, flags)>> \o rest
             ELSE rest

\* the loop of fetchRepoPRs over pulls; status is what ListReviews and
\* ListCommits answer for the pull request
RECURSIVE FilterPulls(_, _, _, _, _)
FilterPulls(tbl, repo, authors, cutoff, pulls) ==
    IF pulls = <<>> THEN <<>>
    ELSE LET pr == Head(pulls)
             rest == FilterPulls(tbl, repo, authors, cutoff, Tail(pulls))
             flags == checkReviewStatus(pr.status[1], pr.status[2], pr.status[3], pr.status[4])
         IN  IF pr.author \notin authors THEN rest
             ELSE IF pr.createdAt < cutoff THEN rest
             ELSE IF pr.draft THEN rest
             ELSE IF dbIsIgnored(tbl, repo, pr.number) THEN rest
             ELSE IF flags[1] \/ flags[2] THEN <<ListedPR(repo, pr, flags)>> \o rest
             ELSE rest

NoListCall ==
    [repo |-> "", err |-> FALSE, pulls |-> <<>>, cutoff |-> 0, result |-> <<>>,
     done |-> FALSE]

\* the call of fetchRepoPRs that listCall holds the listing for
FetchRepoPRs ==
    /\ ~listCall.done
    /\ listCall' = [listCall EXCEPT !.done = TRUE, !.result =
         IF ~HasClient(listCall.repo) \/ listCall.err THEN <<>>
         ELSE FilterPulls(rows, listCall.repo, Authors, listCall.cutoff, listCall.pulls)]
    /\ UNCHANGED <<now, orgClients, rows, rechecks, prs, procVars, ghostVars,
                   state, inbox, poller, statusCall, nextPoll, ignores, boot>>

\* one turn of the first loop of refreshRepos, on a listing given in full:
\* PullRequests.List answers listCall.pulls for listCall.repo and no pull
\* request for another repository
SweepFetchListed(s) ==
    LET sw == sweeps[s]
        repo == sw.repos[sw.i]
        last == sw.i = Len(sw.repos)
        pulls == IF repo = listCall.repo THEN listCall.pulls ELSE <<>>
        fetched == IF ~HasClient(repo) THEN <<>>
                   ELSE FilterPulls(rows, repo, Authors, Cutoff(now), pulls)
    IN
    /\ sw.pc = "fetch"
    /\ sweeps' = [sweeps EXCEPT ![s] =
         [sw EXCEPT !.newPRsFromRepos = @ \o fetched,
                    !.i = IF last THEN 1 ELSE @ + 1,
                    !.pc = IF last THEN "clear" ELSE "fetch"]]
    /\ UNCHANGED <<now, rows, prs>>
    /\ SweepFrame

-----------------------------------------------------------------------------
(* notifications.go: the notification poller *)

\* A text is a sequence of characters.  strconv.Atoi: an optional sign and then
\* one decimal digit or more
DigitValue ==
    [c \in {"0", "1", "2", "3", "4", "5", "6", "7", "8", "9"} |->
       CASE c = "0" -> 0 [] c = "1" -> 1 [] c = "2" -> 2 [] c = "3" -> 3 [] c = "4" -> 4
         [] c = "5" -> 5 [] c = "6" -> 6 [] c = "7" -> 7 [] c = "8" -> 8 [] c = "9" -> 9]

RECURSIVE DigitsValue(_)
DigitsValue(text) ==
    IF text = <<>> THEN 0
    ELSE 10 * DigitsValue(SubSeq(text, 1, Len(text) - 1)) + DigitValue[text[Len(text)]]

Atoi(text) ==
    LET signed == text # <<>> /\ text[1] \in {"+", "-"}
        digits == IF signed THEN Tail(text) ELSE text
    IN  IF digits = <<>> \/ \E c \in DOMAIN digits : digits[c] \notin DOMAIN DigitValue
        THEN [ok |-> FALSE, n |-> 0]
        ELSE [ok |-> TRUE,
              n |-> IF signed /\ text[1] = "-" THEN 0 - DigitsValue(digits)
                    ELSE DigitsValue(digits)]

\* extractPRNumber: the URL split at "/", as the sequence of its parts
extractPRNumber(apiURL) ==
    IF Len(apiURL) < 2 THEN [ok |-> FALSE, n |-> 0] ELSE Atoi(apiURL[Len(apiURL)])

\* table state
LastModifiedKey == "notifications_last_modified"

PollIntervalKey == "notifications_poll_interval"

CleanupDoneKey == "initial_cleanup_done"

StateKeys == {LastModifiedKey, PollIntervalKey, CleanupDoneKey}

NoState == [key \in StateKeys |-> <<>>]

dbGetState(tbl, key) == tbl[key]

dbSetState(tbl, key, value) == [tbl EXCEPT ![key] = value]

defaultNotificationInterval == 60 * Second

\* defaultClient is set: a default client serves every organisation
HasDefaultClient == orgClients = AllOrgs

\* makeRepoSet
repoSet == RepoSet

\* authorSet
authorSet == Authors

\* the decimal text of a number below ten
NumberText(n) == <<CHOOSE c \in DOMAIN DigitValue : DigitValue[c] = n>>

PullURL(number) == <<<<"p", "u", "l", "l", "s">>, NumberText(number)>>

\* the notification threads there can be: for a/x#1 and b/y#1, an issue, a pull
\* request of a repository that is not in config.Repos, a subject URL that
\* does not end in a number
Threads ==
    {[id |-> 1, type |-> "PullRequest", repo |-> "a/x", url |-> PullURL(1)],
     [id |-> 2, type |-> "PullRequest", repo |-> "b/y", url |-> PullURL(1)],
     [id |-> 3, type |-> "Issue", repo |-> "a/x", url |-> <<<<"i">>, NumberText(1)>>],
     [id |-> 4, type |-> "PullRequest", repo |-> "c/z", url |-> PullURL(1)],
     [id |-> 5, type |-> "PullRequest", repo |-> "a/x", url |-> <<<<"p">>, <<"x">>>>]}

RECURSIVE InIdOrder(_)
InIdOrder(S) ==
    IF S = {} THEN <<>>
    ELSE LET m == CHOOSE x \in S : \A y \in S : x.id <= y.id
         IN  <<m>> \o InIdOrder(S \ {m})

\* what PullRequests.Get can answer
NoPR == [err |-> TRUE, state |-> "", draft |-> FALSE, author |-> "", requested |-> FALSE]

OpenPR(requested) ==
    [err |-> FALSE, state |-> "open", draft |-> FALSE, author |-> "alice",
     requested |-> requested]

PullAnswers ==
    {NoPR, OpenPR(FALSE), OpenPR(TRUE),
     [OpenPR(FALSE) EXCEPT !.state = "closed"],
     [OpenPR(FALSE) EXCEPT !.draft = TRUE],
     [OpenPR(FALSE) EXCEPT !.author = "mallory"]}

\* what ListReviews and ListCommits can answer, as the arguments of
\* checkReviewStatus: no review, an approval after the last commit, a commit
\* after the approval
StatusAnswers ==
    {<<FALSE, <<>>, FALSE, <<>>>>,
     <<FALSE, <<[user |-> "r1", state |-> "APPROVED", at |-> 1]>>, FALSE, <<0>>>>,
     <<FALSE, <<[user |-> "r1", state |-> "APPROVED", at |-> 1]>>, FALSE, <<2>>>>}

\* whether review is requested of the user on the pull request
isReviewRequestedForUser(pr) == pr.requested

\* the answers to GET notifications
LM1 == <<"L", "1">>

LM2 == <<"L", "2">>

NoResponse ==
    [status |-> "", lastModified |-> <<>>, pollInterval |-> <<>>, notifications |-> <<>>]

\* the headers Last-Modified and X-Poll-Interval of a 200: none, the first
\* alone, and the first with an interval of 60, of 120, of 0 and of no number
ResponseHeaders ==
    {<<<<>>, <<>>>>, <<LM2, <<>>>>, <<LM2, <<"6", "0">>>>, <<LM2, <<"1", "2", "0">>>>,
     <<LM2, <<"0">>>>, <<<<>>, <<"x">>>>}

\* an error, a 304 to a conditional request, or a 200 with its headers and the
\* unread threads; all of them, or the first page only when a later page fails
Responses(sent) ==
    {[NoResponse EXCEPT !.status = "error"]}
    \cup (IF sent = <<>> THEN {} ELSE {[NoResponse EXCEPT !.status = "304"]})
    \cup {[status |-> "200", lastModified |-> h[1], pollInterval |-> h[2],
           notifications |-> list] :
            h \in ResponseHeaders,
            list \in {InIdOrder(inbox),
                      SubSeq(InIdOrder(inbox), 1, IF inbox = {} THEN 0 ELSE 1)}}

\* the frame of notificationLoop, pollNotifications and processNotifications;
\* trace is a ghost: the store writes and the markThreadRead calls of the
\* pass, each with the position of its notification
NoPoller ==
    [pc |-> "off", pollInterval |-> 0, nextTick |-> 0, passes |-> 0,
     sent |-> <<>>, resp |-> NoResponse, newInterval |-> 0,
     notifications |-> <<>>, n |-> 1, prNumber |-> 0, pr |-> NoPR, flags |-> <<>>,
     updated |-> FALSE, dbPRs |-> <<>>, trace |-> <<>>]

PollFrame ==
    UNCHANGED <<now, orgClients, rechecks, procVars, ghostVars, statusCall, listCall,
                nextPoll, ignores, boot>>

\* mutant: the stored interval is not read
StartInterval_Default(stored) == defaultNotificationInterval

\* notificationLoop: the interval the ticker starts with
StartInterval(stored) ==
    IF stored # <<>> /\ Atoi(stored).ok /\ Atoi(stored).n > 0
    THEN Atoi(stored).n * Second
    ELSE defaultNotificationInterval

\* notificationLoop up to its ticker
PollerStart ==
    /\ poller.pc = "off"
    /\ LET pollInterval == StartInterval(dbGetState(state, PollIntervalKey)) IN
       poller' = [poller EXCEPT !.pc = "idle", !.pollInterval = pollInterval,
                                !.nextTick = now + pollInterval,
                                !.newInterval = 0, !.notifications = <<>>, !.n = 1,
                                !.updated = FALSE, !.dbPRs = <<>>, !.trace = <<>>]
    /\ UNCHANGED <<rows, prs, state, inbox>>
    /\ PollFrame

\* mutant: a 304 is taken for a response with a body
PollOutcome_NoNotModified(status) ==
    IF status = "error" THEN "error" ELSE "ok"

\* pollNotifications after defaultClient.Do: an error of status 304 is not an
\* error of the poll
PollOutcome(status) ==
    CASE status = "304" -> "notModified"
      [] status = "error" -> "error"
      [] OTHER -> "ok"

\* mutant: the header is not adopted
NewInterval_None(pi) == 0

\* newInterval, from the header X-Poll-Interval
NewInterval(pi) ==
    IF pi # <<>> /\ Atoi(pi).ok /\ Atoi(pi).n > 0 THEN Atoi(pi).n * Second ELSE 0

\* notificationLoop: the interval after a poll that returned newInterval
AdoptInterval(pollInterval, newInterval) ==
    IF newInterval > 0 /\ newInterval # pollInterval THEN newInterval ELSE pollInterval

MaxPasses == 2

\* a tick of the ticker: pollNotifications up to the response
PollTick(limit) ==
    /\ poller.pc = "idle"
    /\ now >= poller.nextTick
    /\ poller.passes < limit
    /\ LET sent == dbGetState(state, LastModifiedKey)
           over == [poller EXCEPT !.nextTick = now + poller.pollInterval,
                                  !.passes = @ + 1, !.trace = <<>>,
                                  !.resp = NoResponse, !.notifications = <<>>]
       IN  IF ~HasDefaultClient THEN poller' = over
           ELSE \E resp \in Responses(sent) :
                  IF PollOutcome(resp.status) = "ok"
                  THEN poller' = [over EXCEPT !.pc = "headers", !.sent = sent, !.resp = resp]
                  ELSE poller' = [over EXCEPT !.sent = sent, !.resp = resp]
    /\ UNCHANGED <<rows, prs, state, inbox>>
    /\ PollFrame

\* pollNotifications: the two headers are stored, the pages are put together
PollHeaders ==
    LET resp == poller.resp
        newInterval == NewInterval(resp.pollInterval)
        state1 == IF resp.lastModified # <<>>
                  THEN dbSetState(state, LastModifiedKey, resp.lastModified) ELSE state
    IN
    /\ poller.pc = "headers"
    /\ state' = IF newInterval > 0
                THEN dbSetState(state1, PollIntervalKey, resp.pollInterval) ELSE state1
    /\ poller' = [poller EXCEPT !.newInterval = newInterval,
                                !.notifications = resp.notifications,
                                !.resp = [resp EXCEPT !.notifications = <<>>],
                                !.n = 1, !.updated = FALSE,
                                !.pc = IF resp.notifications = <<>> THEN "return" ELSE "item"]
    /\ UNCHANGED <<rows, prs, inbox>>
    /\ PollFrame

\* mutant: the loop ends at a notification that was passed over
Turn_BreakOnSkip(p) ==
    LET last == p.n = Len(p.notifications) \/ p.pr.err IN
    [p EXCEPT !.pr = NoPR, !.prNumber = 0, !.flags = <<>>,
              !.n = IF last THEN @ ELSE @ + 1,
              !.pc = IF ~last THEN "item" ELSE IF p.updated THEN "reload" ELSE "return"]

\* the turn of the loop of processNotifications, and what follows the loop
Turn(p) ==
    LET last == p.n = Len(p.notifications) IN
    [p EXCEPT !.pr = NoPR, !.prNumber = 0, !.flags = <<>>,
              !.n = IF last THEN @ ELSE @ + 1,
              !.pc = IF ~last THEN "item" ELSE IF p.updated THEN "reload" ELSE "return"]

\* mutant: a subject URL without a number is passed over with a bare continue
Skip_BadURLUnmarked(p, path) ==
    IF path = "url" THEN Turn(p) ELSE [p EXCEPT !.pc = "mark"]

\* the branches that end in markThreadRead and continue with no store write:
\* "type", "url", "ignored", "client", "fetch"
Skip(p, path) == [p EXCEPT !.pc = "mark"]

\* processNotifications, one notification: up to PullRequests.Get
ItemFetch(answers) ==
    LET nt == poller.notifications[poller.n]
        number == extractPRNumber(nt.url)
    IN
    /\ poller.pc = "item"
    /\ IF nt.type # "PullRequest" \/ nt.repo \notin repoSet THEN poller' = Skip(poller, "type")
       ELSE IF ~number.ok THEN poller' = Skip(poller, "url")
       ELSE IF dbIsIgnored(rows, nt.repo, number.n) THEN poller' = Skip(poller, "ignored")
       ELSE IF ~HasClient(nt.repo) THEN poller' = Skip(poller, "client")
       ELSE \E pr \in answers :
              IF pr.err THEN poller' = Skip(poller, "fetch")
              ELSE poller' = [poller EXCEPT !.pc = "muted", !.pr = pr, !.prNumber = number.n]
    /\ UNCHANGED <<rows, prs, state, inbox>>
    /\ PollFrame

\* mutant: a muted pull request is un-muted whether review is requested or not
MutedStep_Unmute(tbl, repo, number, pr) ==
    IF dbIsMuted(tbl, repo, number)
    THEN <<dbUnmutePR(tbl, repo, number), "write">>
    ELSE <<tbl, "write">>

\* processNotifications: dbIsMuted, isReviewRequestedForUser, dbUnmutePR; the
\* table afterwards and where the item goes on
MutedStep(tbl, repo, number, pr) ==
    IF dbIsMuted(tbl, repo, number)
    THEN IF isReviewRequestedForUser(pr)
         THEN <<dbUnmutePR(tbl, repo, number), "write">>
         ELSE <<tbl, "mark">>
    ELSE <<tbl, "write">>

ItemMuted ==
    LET nt == poller.notifications[poller.n]
        step == MutedStep(rows, nt.repo, poller.prNumber, poller.pr)
    IN
    /\ poller.pc = "muted"
    /\ rows' = step[1]
    /\ poller' = [poller EXCEPT !.pc = step[2],
                    !.trace = IF step[1] # rows THEN Append(@, <<"unmute", poller.n>>) ELSE @]
    /\ UNCHANGED <<prs, state, inbox>>
    /\ PollFrame

\* the PRInfo processNotifications saves
NotifiedPR(repo, pr, number, flags) ==
    [Repo |-> repo, Number |-> number, Title |-> "t1", Author |-> pr.author, URL |-> "u",
     NeedsReview |-> flags[1], NeedsReapproval |-> flags[2]]

\* mutant: the classifier's result is not looked at, the record is saved
StoreNotified_Always(tbl, repo, pr, number, flags, t) ==
    IF pr.state # "open" \/ pr.draft \/ pr.author \notin authorSet
    THEN dbRemovePR(tbl, repo, number)
    ELSE dbSavePR(tbl, NotifiedPR(repo, pr, number, flags), t)

\* processNotifications: the store write for a pull request that was fetched
StoreNotified(tbl, repo, pr, number, flags, t) ==
    IF pr.state # "open" \/ pr.draft \/ pr.author \notin authorSet
    THEN dbRemovePR(tbl, repo, number)
    ELSE IF flags[1] \/ flags[2]
         THEN dbSavePR(tbl, NotifiedPR(repo, pr, number, flags), t)
         ELSE dbRemovePR(tbl, repo, number)

\* processNotifications: checkReviewStatus and the store write
ItemWrite ==
    LET nt == poller.notifications[poller.n] IN
    /\ poller.pc = "write"
    /\ \E a \in StatusAnswers :
         LET flags == checkReviewStatus(a[1], a[2], a[3], a[4]) IN
         /\ rows' = StoreNotified(rows, nt.repo, poller.pr, poller.prNumber, flags, now)
         /\ poller' = [poller EXCEPT !.pc = "mark", !.updated = TRUE, !.flags = flags,
                                     !.trace = Append(@, <<"write", poller.n>>)]
    /\ UNCHANGED <<prs, state, inbox>>
    /\ PollFrame

\* markThreadRead, which can fail, and the turn of the loop
ItemMark ==
    LET nt == poller.notifications[poller.n] IN
    /\ poller.pc = "mark"
    /\ \E ok \in BOOLEAN : inbox' = IF ok THEN {x \in inbox : x.id # nt.id} ELSE inbox
    /\ poller' = Turn([poller EXCEPT !.trace = Append(@, <<"mark", poller.n>>)])
    /\ UNCHANGED <<rows, prs, state>>
    /\ PollFrame

\* reloadPRsFromDB: dbPRs, err := dbLoadActivePRs()
PollReload ==
    /\ poller.pc = "reload"
    /\ poller' = [poller EXCEPT !.pc = "assign", !.dbPRs = dbLoadActivePRs(rows)]
    /\ UNCHANGED <<rows, prs, state, inbox>>
    /\ PollFrame

\* reloadPRsFromDB: prs = dbPRs under prsMutex
PollAssign ==
    /\ poller.pc = "assign"
    /\ prs' = poller.dbPRs
    /\ poller' = [poller EXCEPT !.pc = "return"]
    /\ UNCHANGED <<rows, state, inbox>>
    /\ PollFrame

\* pollNotifications returns newInterval; notificationLoop resets its ticker
PollReturn ==
    /\ poller.pc = "return"
    /\ LET pollInterval == AdoptInterval(poller.pollInterval, poller.newInterval) IN
       poller' = [poller EXCEPT !.pc = "idle", !.pollInterval = pollInterval,
                                !.nextTick = now + pollInterval,
                                !.newInterval = 0, !.notifications = <<>>, !.n = 1,
                                !.updated = FALSE, !.dbPRs = <<>>, !.trace = <<>>]
    /\ UNCHANGED <<rows, prs, state, inbox>>
    /\ PollFrame

-----------------------------------------------------------------------------
(* main.go: main and onReady; notifications.go: validateNotificationAccess,  *)
(* initialNotificationCleanup and the three loops                            *)

Loops == {"notificationLoop", "fullRefreshLoop", "legacySchedulerLoop"}

\* a process before onReady's choice.  run counts the starts; loops are the
\* goroutines onReady started, refreshed those that called refreshAllRepos,
\* cleanup is the position in initialNotificationCleanup; answer, probes,
\* marked and flagged are ghosts: what the probe was answered, the calls of
\* validateNotificationAccess in this run, and the runs that called
\* MarkNotificationsRead and that set the flag
NoBoot ==
    [pc |-> "probe", run |-> 1, access |-> FALSE, loops |-> {}, refreshed |-> {},
     cleanup |-> "", answer |-> "", probes |-> 0, marked |-> <<>>, flagged |-> <<>>]

\* the text "true"
TrueText == <<"t", "r", "u", "e">>

\* what the ListNotifications of validateNotificationAccess can answer: a
\* response without or with X-Poll-Interval, a 403, a 401, another error
ProbeAnswers ==
    {[status |-> "ok", pollInterval |-> pi] : pi \in {<<>>, <<"6", "0">>}}
        \cup {[status |-> st, pollInterval |-> <<>>] :
                st \in {"forbidden", "unauthorized", "error"}}

BootFrame ==
    UNCHANGED <<now, orgClients, rows, rechecks, prs, activeRechecks, resumed, workers,
                calls, ghostVars, poller, statusCall, listCall, nextPoll, ignores>>

\* validateNotificationAccess
ValidateNotificationAccess ==
    /\ boot.pc = "probe"
    /\ IF ~HasDefaultClient
       THEN /\ boot' = [boot EXCEPT !.pc = "choose", !.access = FALSE, !.probes = @ + 1,
                                    !.answer = "no client"]
            /\ state' = state
       ELSE \E a \in ProbeAnswers :
              /\ boot' = [boot EXCEPT !.pc = "choose", !.access = (a.status = "ok"),
                                      !.probes = @ + 1, !.answer = a.status]
              /\ state' = IF a.status = "ok" /\ a.pollInterval # <<>>
                          THEN dbSetState(state, PollIntervalKey, a.pollInterval)
                          ELSE state
    /\ UNCHANGED <<inbox, sweeps>>
    /\ BootFrame

\* mutant: the fallback loop is started whatever the probe answered
ModeLoops_LegacyToo(access) ==
    IF access THEN Loops ELSE {"legacySchedulerLoop"}

\* onReady: the goroutines of the polling strategy
ModeLoops(access) ==
    IF access THEN {"notificationLoop", "fullRefreshLoop"} ELSE {"legacySchedulerLoop"}

\* onReady: if validateNotificationAccess() { go ...; go ... } else { go ... }
ChooseStrategy ==
    /\ boot.pc = "choose"
    /\ boot' = [boot EXCEPT !.pc = "done", !.loops = ModeLoops(boot.access),
                            !.cleanup = IF "notificationLoop" \in ModeLoops(boot.access)
                                        THEN "check" ELSE ""]
    /\ UNCHANGED <<state, inbox, sweeps>>
    /\ BootFrame

\* mutant: the flag is not looked at
CleanupDone_Never(tbl) == FALSE

\* initialNotificationCleanup: dbGetState("initial_cleanup_done") == "true"
CleanupDone(tbl) == dbGetState(tbl, CleanupDoneKey) = TrueText

\* initialNotificationCleanup up to its first ListNotifications
CleanupCheck ==
    /\ boot.cleanup = "check"
    /\ boot' = [boot EXCEPT !.cleanup = IF CleanupDone(state) \/ ~HasDefaultClient
                                        THEN "done" ELSE "list"]
    /\ UNCHANGED <<state, inbox, sweeps>>
    /\ BootFrame

\* the pages of all notifications are fetched, or an error is returned
CleanupList ==
    /\ boot.cleanup = "list"
    /\ \E ok \in BOOLEAN : boot' = [boot EXCEPT !.cleanup = IF ok THEN "mark" ELSE "done"]
    /\ UNCHANGED <<state, inbox, sweeps>>
    /\ BootFrame

\* MarkNotificationsRead, whose error is logged
CleanupMark ==
    /\ boot.cleanup = "mark"
    /\ \E ok \in BOOLEAN : inbox' = IF ok THEN {} ELSE inbox
    /\ boot' = [boot EXCEPT !.cleanup = "flag", !.marked = Append(@, boot.run)]
    /\ UNCHANGED <<state, sweeps>>
    /\ BootFrame

\* return dbSetState("initial_cleanup_done", "true")
CleanupFlag ==
    /\ boot.cleanup = "flag"
    /\ state' = dbSetState(state, CleanupDoneKey, TrueText)
    /\ boot' = [boot EXCEPT !.cleanup = "done", !.flagged = Append(@, boot.run)]
    /\ UNCHANGED <<inbox, sweeps>>
    /\ BootFrame

\* refreshAllRepos() at the head of notificationLoop, after the cleanup, and
\* of legacySchedulerLoop
LoopRefresh(loop) ==
    /\ loop \in boot.loops \ boot.refreshed
    /\ loop # "fullRefreshLoop"
    /\ loop = "notificationLoop" => boot.cleanup = "done"
    /\ Len(sweeps) < MaxSweeps
    /\ sweeps' = Append(sweeps, NewSweep(Repos))
    /\ boot' = [boot EXCEPT !.refreshed = @ \cup {loop}]
    /\ UNCHANGED <<state, inbox>>
    /\ BootFrame

\* refreshAllRepos has returned to notificationLoop
AtTicker ==
    /\ "notificationLoop" \in boot.refreshed
    /\ \A s \in DOMAIN sweeps : sweeps[s].pc = "done"

\* the starts a process can have
MaxStarts == 2

\* the process ends, at any point, and is started again: main loads the
\* cache from table prs; the tables and the inbox are as they were left
Restart ==
    /\ boot.run < MaxStarts
    /\ boot' = [NoBoot EXCEPT !.run = boot.run + 1, !.marked = boot.marked,
                              !.flagged = boot.flagged]
    /\ prs' = dbLoadActivePRs(rows)
    /\ activeRechecks' = {}
    /\ resumed' = FALSE
    /\ workers' = NoWorkers
    /\ calls' = NoCalls
    /\ sweeps' = <<>>
    /\ poller' = NoPoller
    /\ UNCHANGED <<now, orgClients, rows, rechecks, ghostVars, state, inbox, statusCall,
                   listCall, nextPoll, ignores>>

-----------------------------------------------------------------------------
(* The clock *)

\* some goroutine or call has a step to take now
Busy ==
    \/ ~resumed
    \/ \E s \in DOMAIN sweeps : sweeps[s].pc # "done"
    \/ poller.pc \notin {"off", "idle"}
    \/ poller.pc = "idle" /\ now >= poller.nextTick
    \/ \E k \in PullRequests : calls[k] # <<0, 0>>
    \/ ignores.running # {}
    \/ \E k \in PullRequests : \E n \in DOMAIN workers[k] :
         workers[k][n].pc = "sleep" => now >= workers[k][n].wakeAt

\* the clock passes to its next instant: the next full minute or, with fine,
\* the tick after a full minute.  A step of the program takes less than a
\* tick: the clock waits for the steps that can be taken.
ClockTick(horizon, fine) ==
    /\ ~Busy
    /\ now' \in {now + 1, now + Minute - (now % Minute)}
    /\ now' % Minute <= (IF fine THEN 1 ELSE 0)
    /\ now' <= horizon
    /\ UNCHANGED <<orgClients, rows, rechecks, prs, procVars, ghostVars, pollVars>>

-----------------------------------------------------------------------------
(* The store's operations, called one at a time, each followed by a load *)

\* what a caller hands to dbSavePR: a pull request of a tracked author which the
\* classifier found to need review or, for a/x#1, re-approval
SaveInputs ==
    UNION {{[Repo |-> k[1], Number |-> k[2], Title |-> "t1", Author |-> author,
             URL |-> "u", NeedsReview |-> nr, NeedsReapproval |-> ~nr]
            : author \in Authors, nr \in IF k = <<"a/x", 1>> THEN BOOLEAN ELSE {TRUE}}
           : k \in PullRequests}

\* ghost: n is the number of rows a DELETE removed (its sql.Result.RowsAffected);
\* again says that the row dbSavePR met already held the values it was given
Called(op, repo, number, n, again) ==
    [op |-> op, repo |-> repo, number |-> number, n |-> n, again |-> again]

NoOp == Called("", "", 0, 0, FALSE)

\* every call is followed by the caller's dbLoadActivePRs (the post-write refresh)
StoreFrame ==
    /\ loaded' = dbLoadActivePRs(rows')
    /\ UNCHANGED <<now, orgClients, rechecks, prs, procVars, pollVars>>

SavePR(pr) ==
    /\ rows' = dbSavePR(rows, pr, now)
    /\ lastOp' = Called("save", pr.Repo, pr.Number, 0,
                        \E r \in RowsOf(rows, pr.Repo, pr.Number) : ScanPRInfo(r) = pr)
    /\ StoreFrame

RemovePR(repo, number) ==
    /\ rows' = dbRemovePR(rows, repo, number)
    /\ lastOp' = Called("remove", repo, number,
                        Cardinality(RowsOf(rows, repo, number)), FALSE)
    /\ StoreFrame

RemoveRepoActivePRs(repo) ==
    /\ rows' = dbRemoveRepoActivePRs(rows, repo)
    /\ lastOp' = Called("removeRepoActive", repo, 0, Cardinality(rows \ rows'), FALSE)
    /\ StoreFrame

IgnorePR(repo, number) ==
    /\ rows' = dbIgnorePR(rows, repo, number, now)
    /\ lastOp' = Called("ignore", repo, number, 0, FALSE)
    /\ StoreFrame

MutePR(repo, number) ==
    /\ rows' = dbMutePR(rows, repo, number, now)
    /\ lastOp' = Called("mute", repo, number, 0, FALSE)
    /\ StoreFrame

UnmutePR(repo, number) ==
    /\ rows' = dbUnmutePR(rows, repo, number)
    /\ lastOp' = Called("unmute", repo, number, 0, FALSE)
    /\ StoreFrame

ClearIgnored ==
    /\ rows' = dbClearIgnored(rows)
    /\ lastOp' = Called("clearIgnored", "", 0, Cardinality(rows \ rows'), FALSE)
    /\ StoreFrame

ClearMuted ==
    /\ rows' = dbClearMuted(rows)
    /\ lastOp' = Called("clearMuted", "", 0, Cardinality(rows \ rows'), FALSE)
    /\ StoreFrame

\* the clock of the store's callers
MaxStoreSeconds == 1

StoreTick ==
    /\ now + Second <= MaxStoreSeconds * Second
    /\ now' = now + Second
    /\ UNCHANGED <<orgClients, rows, rechecks, prs, procVars, ghostVars, pollVars>>

StoreInit ==
    /\ now = 0
    /\ orgClients = AllOrgs
    /\ rows = {}
    /\ rechecks = {}
    /\ prs = <<>>
    /\ activeRechecks = {}
    /\ resumed = TRUE
    /\ workers = NoWorkers
    /\ calls = NoCalls
    /\ sweeps = <<>>
    /\ lastOp = NoOp
    /\ loaded = <<>>
    /\ state = NoState
    /\ inbox = {}
    /\ poller = NoPoller
    /\ statusCall = NoStatusCall
    /\ boot = NoBoot
    /\ listCall = NoListCall
    /\ nextPoll = NoDeadlines
    /\ ignores = NoIgnores

StoreNext ==
    \/ \E pr \in SaveInputs : SavePR(pr)
    \/ \E k \in PullRequests : RemovePR(k[1], k[2])
    \/ \E repo \in RepoSet : RemoveRepoActivePRs(repo)
    \/ \E k \in PullRequests : IgnorePR(k[1], k[2])
    \/ \E k \in PullRequests : MutePR(k[1], k[2])
    \/ \E k \in PullRequests : UnmutePR(k[1], k[2])
    \/ ClearIgnored
    \/ ClearMuted
    \/ StoreTick

SpecStore == StoreInit /\ [][StoreNext]_vars

-----------------------------------------------------------------------------
(* A process start that finds one recheck task in the store *)

\* the oldest task a start finds, in minutes
MaxAgeMinutes == 62

Epoch == MaxAgeMinutes * Minute

\* the configurations of clients: one for every organisation, or none for "b"
ClientConfigs == {AllOrgs, {"a"}}

\* the rows an earlier run left: every pull request, needing review
InitialRows == {NewRow(FetchedPR(k, "review"), 0) : k \in PullRequests}

Task(k, age) == [repo |-> k[1], number |-> k[2], started_at |-> Epoch - age * Minute]

StartWith(tasks) ==
    /\ now = Epoch
    /\ orgClients \in ClientConfigs
    /\ rows = InitialRows
    /\ rechecks = tasks
    /\ prs = dbLoadActivePRs(rows)
    /\ activeRechecks = {}
    /\ resumed = FALSE
    /\ workers = NoWorkers
    /\ calls = NoCalls
    /\ sweeps = <<>>
    /\ lastOp = NoOp
    /\ loaded = <<>>
    /\ state = NoState
    /\ inbox = {}
    /\ poller = NoPoller
    /\ statusCall = NoStatusCall
    /\ boot = NoBoot
    /\ listCall = NoListCall
    /\ nextPoll = NoDeadlines
    /\ ignores = NoIgnores

\* a task of any age on b/y#1 and, or not, a task on a/x#1 that is expired or
\* two minutes from the end of its schedule
ResumeInit ==
    \E age \in 0..MaxAgeMinutes :
      \E others \in {{}, {Task(<<"a/x", 1>>, MaxAgeMinutes)},
                     {Task(<<"a/x", 1>>, MaxAgeMinutes - 4)}} :
        StartWith({Task(<<"b/y", 1>>, age)} \cup others)

ResumeNext ==
    \/ resumeRechecks
    \/ \E k \in PullRequests : \E n \in DOMAIN workers[k] : WorkerStart(k, n)
    \/ \E k \in PullRequests : \E n \in DOMAIN workers[k] : WorkerWake(k, n)
    \/ \E k \in PullRequests : \E n \in DOMAIN workers[k] :
         RecheckFetch(k, n, {"error", "gone", "review"})
    \/ \E k \in PullRequests : \E n \in DOMAIN workers[k] : RecheckWrite(k, n)
    \/ \E k \in PullRequests : \E n \in DOMAIN workers[k] : RecheckReload(k, n)
    \/ \E k \in PullRequests : \E n \in DOMAIN workers[k] : RecheckAssign(k, n)
    \/ \E k \in PullRequests : \E n \in DOMAIN workers[k] : WorkerRemoveTask(k, n)
    \/ \E k \in PullRequests : \E n \in DOMAIN workers[k] : WorkerUnregister(k, n)
    \/ /\ workers # NoWorkers
       /\ ClockTick(Epoch + recheckTotalDuration + Minute, FALSE)

SpecResume == ResumeInit /\ [][ResumeNext]_vars

-----------------------------------------------------------------------------
(* A process start followed by clicks on the pull requests of the menu *)

\* how long the clock runs after the start, in minutes
MaxClickMinutes == 2

ClickInit ==
    \E tasks \in {{}, {Task(<<"a/x", 1>>, MaxAgeMinutes)},
                  {Task(<<"b/y", 1>>, MaxAgeMinutes - 3)}} :
      StartWith(tasks)

ClickNext ==
    \/ resumeRechecks
    \/ \E k \in {<<"b/y", 1>>} : ClickOpen(k)
    \/ \E k \in PullRequests : ScheduleRecheckAdd(k)
    \/ \E k \in PullRequests : ScheduleRecheckStart(k)
    \/ \E k \in PullRequests : \E n \in DOMAIN workers[k] : WorkerStart(k, n)
    \/ \E k \in PullRequests : \E n \in DOMAIN workers[k] : WorkerWake(k, n)
    \/ \E k \in PullRequests : \E n \in DOMAIN workers[k] :
         RecheckFetch(k, n, {"error", "gone", "review"})
    \/ \E k \in PullRequests : \E n \in DOMAIN workers[k] : RecheckWrite(k, n)
    \/ \E k \in PullRequests : \E n \in DOMAIN workers[k] : RecheckReload(k, n)
    \/ \E k \in PullRequests : \E n \in DOMAIN workers[k] : RecheckAssign(k, n)
    \/ \E k \in PullRequests : \E n \in DOMAIN workers[k] : WorkerRemoveTask(k, n)
    \/ \E k \in PullRequests : \E n \in DOMAIN workers[k] : WorkerUnregister(k, n)
    \/ ClockTick(Epoch + MaxClickMinutes * Minute, TRUE)

SpecClick == ClickInit /\ [][ClickNext]_vars

-----------------------------------------------------------------------------
(* A start that finds a task at the end of its schedule, and clicks on its
   pull request when no goroutine of the key has a check under way or ahead *)

\* a goroutine of the key that has a check under way or ahead of it
Checking(ws, k) ==
    \E n \in DOMAIN ws[k] : ws[k][n].pc \notin {"exit", "unregister"}

LateInit == StartWith({Task(<<"b/y", 1>>, recheckTotalDuration \div Minute)})

LateNext ==
    \/ resumeRechecks
    \/ \E k \in {<<"b/y", 1>>} : calls = NoCalls /\ ~Checking(workers, k) /\ ClickOpen(k)
    \/ \E k \in PullRequests : ScheduleRecheckAdd(k)
    \/ \E k \in PullRequests : ScheduleRecheckStart(k)
    \/ \E k \in PullRequests : \E n \in DOMAIN workers[k] : WorkerStart(k, n)
    \/ \E k \in PullRequests : \E n \in DOMAIN workers[k] : WorkerWake(k, n)
    \/ \E k \in PullRequests : \E n \in DOMAIN workers[k] :
         RecheckFetch(k, n, {"error", "gone", "review"})
    \/ \E k \in PullRequests : \E n \in DOMAIN workers[k] : RecheckWrite(k, n)
    \/ \E k \in PullRequests : \E n \in DOMAIN workers[k] : RecheckReload(k, n)
    \/ \E k \in PullRequests : \E n \in DOMAIN workers[k] : RecheckAssign(k, n)
    \/ \E k \in PullRequests : \E n \in DOMAIN workers[k] : WorkerRemoveTask(k, n)
    \/ \E k \in PullRequests : \E n \in DOMAIN workers[k] : WorkerUnregister(k, n)
    \/ ClockTick(Epoch + MaxClickMinutes * Minute, TRUE)

SpecLate == LateInit /\ [][LateNext]_vars

-----------------------------------------------------------------------------
(* A start that finds the task of b/y#1 past the end of its schedule, and
   clicks on b/y#1 beside the final check *)

ExpiredInit == StartWith({Task(<<"b/y", 1>>, MaxAgeMinutes)})

SpecExpired == ExpiredInit /\ [][ClickNext]_vars

-----------------------------------------------------------------------------
(* A sweep beside the worker of a recheck task that is one minute old *)

MaxSweepMinutes == 1

SweepInit ==
    \E tasks \in {{Task(<<"a/x", 1>>, 1)}, {Task(<<"b/y", 1>>, 1)}} :
      StartWith(tasks)

SweepNext ==
    \/ resumeRechecks
    \/ SweepStart
    \/ \E s \in DOMAIN sweeps : SweepFetch(s)
    \/ \E s \in DOMAIN sweeps : SweepClear(s)
    \/ \E s \in DOMAIN sweeps : SweepSave(s)
    \/ \E s \in DOMAIN sweeps : SweepMerge(s)
    \/ \E k \in PullRequests : \E n \in DOMAIN workers[k] : WorkerStart(k, n)
    \/ \E k \in PullRequests : \E n \in DOMAIN workers[k] : WorkerWake(k, n)
    \/ \E k \in PullRequests : \E n \in DOMAIN workers[k] :
         RecheckFetch(k, n, {"error", "gone", "review"})
    \/ \E k \in PullRequests : \E n \in DOMAIN workers[k] : RecheckWrite(k, n)
    \/ \E k \in PullRequests : \E n \in DOMAIN workers[k] : RecheckReload(k, n)
    \/ \E k \in PullRequests : \E n \in DOMAIN workers[k] : RecheckAssign(k, n)
    \/ \E k \in PullRequests : \E n \in DOMAIN workers[k] : WorkerRemoveTask(k, n)
    \/ \E k \in PullRequests : \E n \in DOMAIN workers[k] : WorkerUnregister(k, n)
    \/ ClockTick(Epoch + MaxSweepMinutes * Minute, FALSE)

SpecSweep == SweepInit /\ [][SweepNext]_vars

-----------------------------------------------------------------------------
(* refreshRepos called with any batch of the configured repositories *)

Batches == {<<"a/x">>, <<"b/y">>, Repos}

BatchInit == StartWith({})

BatchNext ==
    \/ resumeRechecks
    \/ \E repos \in Batches : StartRefresh(repos)
    \/ \E s \in DOMAIN sweeps : SweepFetch(s)
    \/ \E s \in DOMAIN sweeps : SweepClear(s)
    \/ \E s \in DOMAIN sweeps : SweepSave(s)
    \/ \E s \in DOMAIN sweeps : SweepMerge(s)

SpecBatch == BatchInit /\ [][BatchNext]_vars

-----------------------------------------------------------------------------
(* The same batches, with writes of the store that can return an error *)

FaultyNext ==
    \/ \E repos \in Batches : StartRefresh(repos)
    \/ \E s \in DOMAIN sweeps : SweepFetch(s)
    \/ \E s \in DOMAIN sweeps : SweepClear(s)
    \/ \E s \in DOMAIN sweeps : SweepClearFails(s)
    \/ \E s \in DOMAIN sweeps : SweepSave(s)
    \/ \E s \in DOMAIN sweeps : SweepSaveFails(s)
    \/ \E s \in DOMAIN sweeps : SweepMerge(s)

SpecFaulty == BatchInit /\ [][FaultyNext]_vars

-----------------------------------------------------------------------------
(* The classifier, called on every short list of reviews and of commits *)

MaxReviews == 2

MaxCommits == 2

MaxTime == 2

SeqsUpTo(S, n) == UNION {[1..m -> S] : m \in 0..n}

ReviewLists ==
    SeqsUpTo([user : Reviewers, state : ReviewStates, at : ZeroTime..MaxTime], MaxReviews)

CommitLists == SeqsUpTo(ZeroTime..MaxTime, MaxCommits)

ClassifyInit ==
    /\ now = 0
    /\ orgClients = AllOrgs
    /\ rows = {}
    /\ rechecks = {}
    /\ prs = <<>>
    /\ activeRechecks = {}
    /\ resumed = TRUE
    /\ workers = NoWorkers
    /\ calls = NoCalls
    /\ sweeps = <<>>
    /\ lastOp = NoOp
    /\ loaded = <<>>
    /\ state = NoState
    /\ inbox = {}
    /\ poller = NoPoller
    /\ statusCall \in [reviewsErr : BOOLEAN, reviews : ReviewLists,
                       commitsErr : BOOLEAN, commits : CommitLists, result : {<<>>}]
    /\ boot = NoBoot
    /\ listCall = NoListCall
    /\ nextPoll = NoDeadlines
    /\ ignores = NoIgnores

ClassifyNext == CheckReviewStatus

SpecClassify == ClassifyInit /\ [][ClassifyNext]_vars

-----------------------------------------------------------------------------
(* The notification poller, from its start, on an inbox of unread threads *)

MaxThreads == 2

\* a/x#1 absent, active, ignored or muted, and b/y#1 active
PollRows ==
    LET ax == NewRow(FetchedPR(<<"a/x", 1>>, "review"), 0)
        by == NewRow(FetchedPR(<<"b/y", 1>>, "review"), 0)
    IN  {{by}, {ax, by}, {[ax EXCEPT !.ignored = TRUE], by}, {[ax EXCEPT !.muted = TRUE], by}}

PollStart(tables, threads) ==
    /\ now = Epoch
    /\ orgClients = AllOrgs
    /\ rows \in tables
    /\ rechecks = {}
    /\ prs = dbLoadActivePRs(rows)
    /\ activeRechecks = {}
    /\ resumed = TRUE
    /\ workers = NoWorkers
    /\ calls = NoCalls
    /\ sweeps = <<>>
    /\ lastOp = NoOp
    /\ loaded = <<>>
    /\ state \in {NoState,
                  [NoState EXCEPT ![LastModifiedKey] = LM1, ![PollIntervalKey] = <<"1", "2", "0">>]}
    /\ inbox \in {S \in SUBSET threads : Cardinality(S) <= MaxThreads}
    /\ poller = NoPoller
    /\ statusCall = NoStatusCall
    /\ boot = NoBoot
    /\ listCall = NoListCall
    /\ nextPoll = NoDeadlines
    /\ ignores = NoIgnores

\* the ticker's longest interval among those of StartInterval and NewInterval
LongestInterval == 2 * Minute

\* the poller's ticks, with threads that are skipped or whose pull request is
\* open and by a tracked author
PollInit == PollStart(PollRows, {t \in Threads : t.id \in {1, 3}})

PollNext ==
    \/ PollerStart
    \/ PollTick(MaxPasses)
    \/ PollHeaders
    \/ ItemFetch({NoPR, OpenPR(FALSE)})
    \/ ItemMuted
    \/ ItemWrite
    \/ ItemMark
    \/ PollReload
    \/ PollAssign
    \/ PollReturn
    \/ poller.pc = "idle" /\ poller.passes < MaxPasses
         /\ ClockTick(Epoch + MaxPasses * LongestInterval, FALSE)

SpecPoll == PollInit /\ [][PollNext]_vars

-----------------------------------------------------------------------------
(* One pass of processNotifications over every inbox, store and answer *)

NotifyInit == PollStart(PollRows, Threads)

NotifyNext ==
    \/ PollerStart
    \/ PollTick(1)
    \/ PollHeaders
    \/ ItemFetch(PullAnswers)
    \/ ItemMuted
    \/ ItemWrite
    \/ ItemMark
    \/ PollReload
    \/ PollAssign
    \/ PollReturn
    \/ poller.pc = "idle" /\ poller.passes < 1 /\ ClockTick(Epoch + LongestInterval, FALSE)

SpecNotify == NotifyInit /\ [][NotifyNext]_vars

-----------------------------------------------------------------------------
(* A pass over notifications of a/x#1 and b/y#1 and one whose subject URL has
   no number, beside a sweep of the configured repositories *)

CycleInit == PollStart({InitialRows}, {t \in Threads : t.id \in {1, 2, 5}})

CycleNext ==
    \/ PollerStart
    \/ PollTick(1)
    \/ PollHeaders
    \/ ItemFetch({NoPR, OpenPR(FALSE)})
    \/ ItemMuted
    \/ ItemWrite
    \/ ItemMark
    \/ PollReload
    \/ PollAssign
    \/ PollReturn
    \/ poller.pc = "idle" /\ poller.passes < 1 /\ ClockTick(Epoch + LongestInterval, FALSE)
    \/ sweeps = <<>> /\ SweepStart
    \/ \E s \in DOMAIN sweeps : SweepFetch(s)
    \/ \E s \in DOMAIN sweeps : SweepClear(s)
    \/ \E s \in DOMAIN sweeps : SweepSave(s)
    \/ \E s \in DOMAIN sweeps : SweepMerge(s)

SpecCycle == CycleInit /\ [][CycleNext]_vars

-----------------------------------------------------------------------------
(* A pass over a notification of a/x#1, which the user can mute before it *)

MuteInit == PollStart(PollRows, {t \in Threads : t.id = 1})

MuteNext ==
    \/ PollerStart
    \/ PollTick(1)
    \/ PollHeaders
    \/ ItemFetch({NoPR, OpenPR(FALSE), OpenPR(TRUE)})
    \/ ItemMuted
    \/ ItemWrite
    \/ ItemMark
    \/ PollReload
    \/ PollAssign
    \/ PollReturn
    \/ poller.pc = "idle" /\ poller.passes < 1 /\ ClockTick(Epoch + LongestInterval, FALSE)
    \/ ~dbIsMuted(rows, "a/x", 1) /\ MutePR("a/x", 1)

SpecMute == MuteInit /\ [][MuteNext]_vars

-----------------------------------------------------------------------------
(* The user ignores b/y#1, and can clear the ignored, beside a sweep and a
   pass over a notification of b/y#1 *)

IgnoreStart(tasks, threads) ==
    /\ now = Epoch
    /\ orgClients = AllOrgs
    /\ rows = InitialRows
    /\ rechecks = tasks
    /\ prs = dbLoadActivePRs(rows)
    /\ activeRechecks = {}
    /\ resumed = FALSE
    /\ workers = NoWorkers
    /\ calls = NoCalls
    /\ sweeps = <<>>
    /\ lastOp = NoOp
    /\ loaded = <<>>
    /\ state = NoState
    /\ inbox = threads
    /\ poller = NoPoller
    /\ statusCall = NoStatusCall
    /\ boot = NoBoot
    /\ listCall = NoListCall
    /\ nextPoll = NoDeadlines
    /\ ignores = NoIgnores

IgnoreInit == IgnoreStart({}, {t \in Threads : t.id = 2})

IgnoreNext ==
    \/ resumeRechecks
    \/ IgnoreStore(<<"b/y", 1>>)
    \/ \E k \in PullRequests : IgnoreFilter(k)
    \/ clearIgnored
    \/ sweeps = <<>> /\ SweepStart
    \/ \E s \in DOMAIN sweeps : SweepFetch(s)
    \/ \E s \in DOMAIN sweeps : SweepClear(s)
    \/ \E s \in DOMAIN sweeps : SweepSave(s)
    \/ \E s \in DOMAIN sweeps : SweepMerge(s)
    \/ resumed /\ PollerStart
    \/ PollTick(1)
    \/ PollHeaders
    \/ ItemFetch({NoPR, OpenPR(FALSE), OpenPR(TRUE)})
    \/ ItemMuted
    \/ ItemWrite
    \/ ItemMark
    \/ PollReload
    \/ PollAssign
    \/ PollReturn
    \/ ClockTick(Epoch + LongestInterval, FALSE)

SpecIgnore == IgnoreInit /\ [][IgnoreNext]_vars

-----------------------------------------------------------------------------
(* The user ignores b/y#1, and can clear the ignored, beside the worker of a
   task on b/y#1 *)

IgnoredTaskInit == IgnoreStart({Task(<<"b/y", 1>>, 1)}, {})

IgnoredTaskNext ==
    \/ resumeRechecks
    \/ IgnoreStore(<<"b/y", 1>>)
    \/ \E k \in PullRequests : IgnoreFilter(k)
    \/ clearIgnored
    \/ \E s \in DOMAIN sweeps : SweepFetch(s)
    \/ \E s \in DOMAIN sweeps : SweepClear(s)
    \/ \E s \in DOMAIN sweeps : SweepSave(s)
    \/ \E s \in DOMAIN sweeps : SweepMerge(s)
    \/ \E k \in PullRequests : \E n \in DOMAIN workers[k] : WorkerStart(k, n)
    \/ \E k \in PullRequests : \E n \in DOMAIN workers[k] : WorkerWake(k, n)
    \/ \E k \in PullRequests : \E n \in DOMAIN workers[k] :
         RecheckFetch(k, n, {"error", "gone", "review"})
    \/ \E k \in PullRequests : \E n \in DOMAIN workers[k] : RecheckWrite(k, n)
    \/ \E k \in PullRequests : \E n \in DOMAIN workers[k] : RecheckReload(k, n)
    \/ \E k \in PullRequests : \E n \in DOMAIN workers[k] : RecheckAssign(k, n)
    \/ \E k \in PullRequests : \E n \in DOMAIN workers[k] : WorkerRemoveTask(k, n)
    \/ \E k \in PullRequests : \E n \in DOMAIN workers[k] : WorkerUnregister(k, n)
    \/ ClockTick(Epoch + MaxSweepMinutes * Minute, FALSE)

SpecIgnoredTask == IgnoredTaskInit /\ [][IgnoredTaskNext]_vars

-----------------------------------------------------------------------------
(* A process start that finds a task on b/y#1, whatever its checks find *)

\* the ages of the task, in minutes: new, half way, two checks and one check
\* from the end of the schedule
RecheckAges == {0, 30, 53, 58}

\* the rows of InitialRows, b/y#1 ignored or not
RecheckRows ==
    {InitialRows,
     {IF KeyOf(r) = <<"b/y", 1>> THEN [r EXCEPT !.ignored = TRUE] ELSE r : r \in InitialRows}}

RecheckStart(ages) ==
    /\ now = Epoch
    /\ orgClients \in ClientConfigs
    /\ rows \in RecheckRows
    /\ \E age \in ages : rechecks = {Task(<<"b/y", 1>>, age)}
    /\ prs = dbLoadActivePRs(rows)
    /\ activeRechecks = {}
    /\ resumed = FALSE
    /\ workers = NoWorkers
    /\ calls = NoCalls
    /\ sweeps = <<>>
    /\ lastOp = NoOp
    /\ loaded = <<>>
    /\ state = NoState
    /\ inbox = {}
    /\ poller = NoPoller
    /\ statusCall = NoStatusCall
    /\ boot = NoBoot
    /\ listCall = NoListCall
    /\ nextPoll = NoDeadlines
    /\ ignores = NoIgnores

RecheckInit == RecheckStart(RecheckAges)

RecheckNext ==
    \/ resumeRechecks
    \/ \E k \in PullRequests : \E n \in DOMAIN workers[k] : WorkerStart(k, n)
    \/ \E k \in PullRequests : \E n \in DOMAIN workers[k] : WorkerWake(k, n)
    \/ \E k \in PullRequests : \E n \in DOMAIN workers[k] : RecheckFetch(k, n, FetchOutcomes)
    \/ \E k \in PullRequests : \E n \in DOMAIN workers[k] : RecheckWrite(k, n)
    \/ \E k \in PullRequests : \E n \in DOMAIN workers[k] : RecheckReload(k, n)
    \/ \E k \in PullRequests : \E n \in DOMAIN workers[k] : RecheckAssign(k, n)
    \/ \E k \in PullRequests : \E n \in DOMAIN workers[k] : WorkerRemoveTask(k, n)
    \/ \E k \in PullRequests : \E n \in DOMAIN workers[k] : WorkerUnregister(k, n)
    \/ /\ workers # NoWorkers
       /\ ClockTick(Epoch + recheckTotalDuration + Minute, FALSE)

SpecRecheck == RecheckInit /\ [][RecheckNext]_vars

-----------------------------------------------------------------------------
(* The same start, with clicks on b/y#1 while and after its worker runs *)

\* the ages of the task, in minutes: new, and between two checks
RerunAges == {0, 3}

RerunInit == RecheckStart(RerunAges)

\* the steps of onReady and of the scheduleRecheck goroutines
RerunCalls ==
    \/ resumeRechecks
    \/ \E k \in PullRequests : ScheduleRecheckAdd(k)
    \/ \E k \in PullRequests : ScheduleRecheckStart(k)

\* the steps of the worker
RerunWorker ==
    \/ \E k \in PullRequests : \E n \in DOMAIN workers[k] : WorkerStart(k, n)
    \/ \E k \in PullRequests : \E n \in DOMAIN workers[k] : WorkerWake(k, n)
    \/ \E k \in PullRequests : \E n \in DOMAIN workers[k] :
         RecheckFetch(k, n, {"error", "resolved", "review"})
    \/ \E k \in PullRequests : \E n \in DOMAIN workers[k] : RecheckWrite(k, n)
    \/ \E k \in PullRequests : \E n \in DOMAIN workers[k] : RecheckReload(k, n)
    \/ \E k \in PullRequests : \E n \in DOMAIN workers[k] : RecheckAssign(k, n)
    \/ \E k \in PullRequests : \E n \in DOMAIN workers[k] : WorkerRemoveTask(k, n)
    \/ \E k \in PullRequests : \E n \in DOMAIN workers[k] : WorkerUnregister(k, n)

RerunClock == ClockTick(Epoch + MaxClickMinutes * Minute + recheckTotalDuration, FALSE)

\* the user's clicks, one at a time and all in the first minutes, so that the
\* worker a click starts can run its whole schedule
RerunClick ==
    /\ now <= Epoch + MaxClickMinutes * Minute
    /\ calls = NoCalls
    /\ ClickOpen(<<"b/y", 1>>)

RerunNext == RerunCalls \/ RerunWorker \/ RerunClock \/ RerunClick

\* goroutines that can take a step take it, and time passes: the clicks of
\* an instant are finitely many
SpecRerun ==
    /\ RerunInit
    /\ [][RerunNext]_vars
    /\ WF_vars(RerunCalls)
    /\ WF_vars(RerunWorker)
    /\ SF_vars(RerunClock)

-----------------------------------------------------------------------------
(* fetchRepoPRs on b/y, called on every short listing of its open pull
   requests *)

MaxPulls == 2

\* an open pull request of the listing: by a tracked author or not, created
\* one tick before the cutoff or at it, a draft or not
Pulls(cutoff) ==
    [number : 1..MaxPulls, author : {"alice", "mallory"},
     createdAt : {cutoff - 1, cutoff}, draft : BOOLEAN, status : StatusAnswers]

\* the listings: no two pull requests have the same number
PullLists(cutoff) ==
    {list \in UNION {[1..n -> Pulls(cutoff)] : n \in 0..MaxPulls} :
       \A x, y \in DOMAIN list : x # y => list[x].number # list[y].number}

ListInit ==
    /\ now = Epoch
    /\ orgClients \in ClientConfigs
    /\ rows \in RecheckRows
    /\ rechecks = {}
    /\ prs = dbLoadActivePRs(rows)
    /\ activeRechecks = {}
    /\ resumed = TRUE
    /\ workers = NoWorkers
    /\ calls = NoCalls
    /\ sweeps = <<>>
    /\ lastOp = NoOp
    /\ loaded = <<>>
    /\ state = NoState
    /\ inbox = {}
    /\ poller = NoPoller
    /\ statusCall = NoStatusCall
    /\ boot = NoBoot
    /\ \E err \in BOOLEAN : \E pulls \in PullLists(Cutoff(now)) :
         listCall = [repo |-> "b/y", err |-> err, pulls |-> pulls, cutoff |-> Cutoff(now),
                     result |-> <<>>, done |-> FALSE]
    /\ nextPoll = NoDeadlines
    /\ ignores = NoIgnores

ListNext == FetchRepoPRs

SpecList == ListInit /\ [][ListNext]_vars

-----------------------------------------------------------------------------
(* b/y#1, open and by a tracked author, created before the cutoff or not:
   sweeps, a pass over its notification and the worker of its task, on an
   empty table *)

\* b/y#1 as PullRequests.List answers it
OpenPull(createdAt, status) ==
    [number |-> 1, author |-> "alice", createdAt |-> createdAt, draft |-> FALSE,
     status |-> status]

AdmitInit ==
    /\ now = Epoch
    /\ orgClients = AllOrgs
    /\ rows = {}
    /\ rechecks = {Task(<<"b/y", 1>>, 1)}
    /\ prs = <<>>
    /\ activeRechecks = {}
    /\ resumed = FALSE
    /\ workers = NoWorkers
    /\ calls = NoCalls
    /\ sweeps = <<>>
    /\ lastOp = NoOp
    /\ loaded = <<>>
    /\ state = NoState
    /\ inbox = {t \in Threads : t.id = 2}
    /\ poller = NoPoller
    /\ statusCall = NoStatusCall
    /\ boot = NoBoot
    /\ \E createdAt \in {Cutoff(Epoch) - 1, Epoch} : \E status \in StatusAnswers :
         listCall = [NoListCall EXCEPT !.repo = "b/y",
                                       !.pulls = <<OpenPull(createdAt, status)>>]
    /\ nextPoll = NoDeadlines
    /\ ignores = NoIgnores

AdmitNext ==
    \/ resumeRechecks
    \/ SweepStart
    \/ \E s \in DOMAIN sweeps : SweepFetchListed(s)
    \/ \E s \in DOMAIN sweeps : SweepClear(s)
    \/ \E s \in DOMAIN sweeps : SweepSave(s)
    \/ \E s \in DOMAIN sweeps : SweepMerge(s)
    \/ resumed /\ PollerStart
    \/ PollTick(1)
    \/ PollHeaders
    \/ ItemFetch({NoPR, OpenPR(FALSE)})
    \/ ItemMuted
    \/ ItemWrite
    \/ ItemMark
    \/ PollReload
    \/ PollAssign
    \/ PollReturn
    \/ \E k \in PullRequests : \E n \in DOMAIN workers[k] : WorkerStart(k, n)
    \/ \E k \in PullRequests : \E n \in DOMAIN workers[k] : WorkerWake(k, n)
    \/ \E k \in PullRequests : \E n \in DOMAIN workers[k] :
         RecheckFetch(k, n, {"error", "review"})
    \/ \E k \in PullRequests : \E n \in DOMAIN workers[k] : RecheckWrite(k, n)
    \/ \E k \in PullRequests : \E n \in DOMAIN workers[k] : RecheckReload(k, n)
    \/ \E k \in PullRequests : \E n \in DOMAIN workers[k] : RecheckAssign(k, n)
    \/ ClockTick(Epoch + LongestInterval, FALSE)

SpecAdmit == AdmitInit /\ [][AdmitNext]_vars

-----------------------------------------------------------------------------
(* The priority scheduler over some minutes, a/x in tier high and b/y in
   tier medium *)

MaxTierMinutes == 5

TierInit ==
    /\ now = Epoch
    /\ orgClients = AllOrgs
    /\ rows = InitialRows
    /\ rechecks = {}
    /\ prs = dbLoadActivePRs(rows)
    /\ activeRechecks = {}
    /\ resumed = TRUE
    /\ workers = NoWorkers
    /\ calls = NoCalls
    /\ sweeps = <<>>
    /\ lastOp = NoOp
    /\ loaded = <<>>
    /\ state = NoState
    /\ inbox = {}
    /\ poller = NoPoller
    /\ statusCall = NoStatusCall
    /\ boot = NoBoot
    /\ listCall = NoListCall
    /\ nextPoll = [tickAt |-> now + SchedulerTickInterval, deadline |-> InitialDeadlines(now)]
    /\ ignores = NoIgnores

TierNext ==
    \/ SchedulerTick
    \/ SchedulerWait(Epoch + MaxTierMinutes * Minute)
    \/ \E s \in DOMAIN sweeps : SweepFetch(s)
    \/ \E s \in DOMAIN sweeps : SweepClear(s)
    \/ \E s \in DOMAIN sweeps : SweepSave(s)
    \/ \E s \in DOMAIN sweeps : SweepMerge(s)

SpecTiers == TierInit /\ [][TierNext]_vars

-----------------------------------------------------------------------------
(* Process starts: the choice of polling strategy and the one-time cleanup *)

BootInit ==
    /\ now = Epoch
    /\ orgClients \in ClientConfigs
    /\ rows = {}
    /\ rechecks = {}
    /\ prs = <<>>
    /\ activeRechecks = {}
    /\ resumed = FALSE
    /\ workers = NoWorkers
    /\ calls = NoCalls
    /\ sweeps = <<>>
    /\ lastOp = NoOp
    /\ loaded = <<>>
    /\ state = NoState
    /\ inbox = {t \in Threads : t.id = 3}
    /\ poller = NoPoller
    /\ statusCall = NoStatusCall
    /\ boot = NoBoot
    /\ listCall = NoListCall
    /\ nextPoll = NoDeadlines
    /\ ignores = NoIgnores

BootNext ==
    \/ ValidateNotificationAccess
    \/ ChooseStrategy
    \/ boot.pc = "done" /\ resumeRechecks
    \/ CleanupCheck
    \/ CleanupList
    \/ CleanupMark
    \/ CleanupFlag
    \/ \E loop \in Loops : LoopRefresh(loop)
    \/ \E s \in DOMAIN sweeps : SweepFetch(s)
    \/ \E s \in DOMAIN sweeps : SweepClear(s)
    \/ \E s \in DOMAIN sweeps : SweepSave(s)
    \/ \E s \in DOMAIN sweeps : SweepMerge(s)
    \/ AtTicker /\ PollerStart
    \/ PollTick(1)
    \/ PollHeaders
    \/ ItemFetch({NoPR})
    \/ ItemMark
    \/ PollReturn
    \/ /\ poller.pc = "idle"
       /\ poller.passes < 1
       /\ ClockTick(Epoch + LongestInterval, FALSE)
    \/ Restart

SpecBoot == BootInit /\ [][BootNext]_vars

-----------------------------------------------------------------------------
(* The store's contract *)

OtherRows(tbl, repo, number) == tbl \ RowsOf(tbl, repo, number)

\* C7: dbSavePR on a key that has a row leaves the row's ignored and muted as
\* they were and sets title, author, url, needs_review, needs_reapproval and
\* last_checked from its input; on a key without a row it makes one row with
\* ignored and muted false; the rows of every other key stay as they are.
C7_SaveKeepsFlags ==
    [][\A pr \in SaveInputs :
         lastOp'.op = "save" /\ SavePR(pr) =>
           LET old == RowsOf(rows, pr.Repo, pr.Number)
               new == RowsOf(rows', pr.Repo, pr.Number)
           IN  /\ Cardinality(new) = 1
               /\ \A n \in new :
                    /\ ScanPRInfo(n) = pr
                    /\ n.last_checked = FormatRFC3339(now)
                    /\ old = {} => ~n.ignored /\ ~n.muted
                    /\ \A o \in old : n.ignored = o.ignored /\ n.muted = o.muted
               /\ OtherRows(rows', pr.Repo, pr.Number)
                    = OtherRows(rows, pr.Repo, pr.Number)]_vars

\* An ignored and muted row that dbSavePR has just rewritten, at a later time
\* than the row was made.
C7_Witness ==
    /\ lastOp.op = "save"
    /\ \E r \in RowsOf(rows, lastOp.repo, lastOp.number) :
         /\ r.ignored /\ r.muted
         /\ r.title # ""
         /\ r.last_checked > 0

PRBefore(p, q) ==
    \/ RepoRank(p.Repo) < RepoRank(q.Repo)
    \/ p.Repo = q.Repo /\ p.Number < q.Number

Listed(list, repo, number) ==
    \E i \in DOMAIN list : list[i].Repo = repo /\ list[i].Number = number

\* C8: what dbLoadActivePRs returns is exactly the rows with ignored and muted
\* false, each once, in ascending (repo, number) order; after dbSavePR the saved
\* key is listed with the saved values unless it is ignored or muted; after
\* dbRemovePR the removed key is not listed, and the rows of the other keys are
\* as before.
C8_LoadExact ==
    /\ [](/\ \A i, j \in DOMAIN loaded : i < j => PRBefore(loaded[i], loaded[j])
          /\ {loaded[i] : i \in DOMAIN loaded}
               = {ScanPRInfo(r) : r \in {x \in rows : ~x.ignored /\ ~x.muted}}
          /\ Len(loaded) = Cardinality({x \in rows : ~x.ignored /\ ~x.muted})
          /\ lastOp.op = "remove" => ~Listed(loaded, lastOp.repo, lastOp.number))
    /\ [][\A pr \in SaveInputs :
            lastOp'.op = "save" /\ SavePR(pr) =>
              \/ \E i \in DOMAIN loaded' : loaded'[i] = pr
              \/ dbIsIgnored(rows, pr.Repo, pr.Number)
              \/ dbIsMuted(rows, pr.Repo, pr.Number)]_vars
    /\ [][\A k \in PullRequests :
            lastOp'.op = "remove" /\ RemovePR(k[1], k[2]) =>
              OtherRows(rows', k[1], k[2]) = OtherRows(rows, k[1], k[2])]_vars

\* A load right after a save that lists the saved row and a row of the other
\* repository, in order, while a third row is muted.
C8_Witness ==
    /\ lastOp.op = "save"
    /\ Len(loaded) = 2
    /\ loaded[1].Repo = "a/x" /\ loaded[2].Repo = "b/y"
    /\ loaded[1].Number > loaded[2].Number
    /\ \E r \in rows : r.muted /\ ~r.ignored

WithoutTime(tbl) == {[r EXCEPT !.last_checked = 0] : r \in tbl}

\* C9: the table never holds two rows with the same (repo, number), and a
\* dbSavePR whose input the row already holds changes nothing but last_checked.
C9_OneRowPerKey ==
    /\ [](\A r, q \in rows : KeyOf(r) = KeyOf(q) => r = q)
    /\ [][\A pr \in SaveInputs :
            lastOp'.op = "save" /\ lastOp'.again /\ SavePR(pr)
              => WithoutTime(rows') = WithoutTime(rows)]_vars

\* The same input saved a second time, at a later time than the first, with
\* all three keys in the table.
C9_Witness ==
    /\ lastOp.op = "save" /\ lastOp.again
    /\ Cardinality(rows) = 3
    /\ \E r \in RowsOf(rows, lastOp.repo, lastOp.number) : r.last_checked > 0

\* C10: dbRemoveRepoActivePRs(repo) deletes the rows of repo with ignored and
\* muted false and no other row: the ignored rows, the muted rows and the rows
\* of the other repositories stay as they are.
C10_RemoveRepoActiveExact ==
    [][\A repo \in RepoSet :
         lastOp'.op = "removeRepoActive" /\ RemoveRepoActivePRs(repo) =>
           /\ rows' \subseteq rows
           /\ \A r \in rows :
                r \notin rows' <=> (r.repo = repo /\ ~r.ignored /\ ~r.muted)]_vars

\* A call that deleted a row while a muted row of the same repository and an
\* active row of the other repository stayed.
C10_Witness ==
    /\ lastOp.op = "removeRepoActive" /\ lastOp.n >= 1
    /\ \E r \in rows : r.repo = lastOp.repo /\ r.muted /\ ~r.ignored
    /\ \E r \in rows : r.repo # lastOp.repo /\ ~r.muted /\ ~r.ignored

-----------------------------------------------------------------------------
(* The recheck scheduler's contract *)

ScheduleWorkers(k) == {n \in DOMAIN workers[k] : workers[k][n].kind = "schedule"}

FinalChecks(k) == {n \in DOMAIN workers[k] : workers[k][n].kind = "final"}

\* the time of the i-th check after startedAt
Offset(i) == SumTo(recheckSchedule, i)

\* the last check whose time has passed when e has elapsed
LastPassed(e) ==
    CHOOSE i \in DOMAIN recheckSchedule :
      Offset(i) <= e /\ (i = Len(recheckSchedule) \/ Offset(i + 1) > e)

\* C1: once resumeRechecks and its final checks are done, a key that has a task
\* in the store and no scheduleRecheck call in progress has exactly one worker,
\* and the guard set holds the key.
C1_TaskHasWorker ==
    \A k \in PullRequests :
      (/\ resumed
       /\ FinalChecks(k) = {}
       /\ calls[k] = <<0, 0>>
       /\ RowsOf(rechecks, k[1], k[2]) # {})
        => Cardinality(ScheduleWorkers(k)) = 1 /\ k \in activeRechecks

\* C2: a worker that begins with first offset <= elapsed <= total span makes a
\* catch-up check for the last offset passed before anything else, and after it
\* one check for each later offset, in order.
C2_OneCatchUp ==
    \A k \in PullRequests : \A n \in ScheduleWorkers(k) :
      LET w == workers[k][n] IN
      (/\ w.pc # "start"
       /\ w.e0 >= recheckSchedule[1]
       /\ w.e0 <= recheckTotalDuration)
        => /\ Len(w.checks) >= 1
           /\ w.checks[1] = <<LastPassed(w.e0), TRUE>>
           /\ \A j \in 2..Len(w.checks) :
                w.checks[j] = <<LastPassed(w.e0) + j - 1, FALSE>>

C4_OneWorkerPerKey ==
    \A k \in PullRequests :
      /\ Cardinality(ScheduleWorkers(k)) <= 1
      /\ ScheduleWorkers(k) # {} => k \in activeRechecks

\* A worker under way whose key's task was written again by a later
\* scheduleRecheck call, which has returned without starting a worker.
C4_Witness ==
    \E k \in PullRequests :
      /\ calls[k] = <<0, 0>>
      /\ Cardinality(ScheduleWorkers(k)) = 1
      /\ \E n \in ScheduleWorkers(k) : \E t \in RowsOf(rechecks, k[1], k[2]) :
           /\ workers[k][n].pc = "sleep"
           /\ t.started_at > workers[k][n].startedAt

-----------------------------------------------------------------------------
(* The sweep's contract *)

RepoRows(tbl, repo) == {r \in tbl : r.repo = repo}

\* the sweep has removed the active rows of some repository of its batch and
\* has not yet saved the last of the new ones
BetweenClearAndSave(sw) ==
    \/ sw.pc = "clear" /\ sw.i > 1
    \/ sw.pc = "save"

\* C5: no step of a sweep changes the rows of a repository whose listing
\* failed in that sweep.
C5_FailedRepoUntouched ==
    [][\A s \in DOMAIN sweeps :
         s \in DOMAIN sweeps' /\ sweeps'[s] # sweeps[s]
           => \A repo \in sweeps[s].failed :
                RepoRows(rows', repo) = RepoRows(rows, repo)]_vars

\* C6: no worker's reloadPRsFromDB reads the store while a sweep is between
\* its clearing of the active rows and the last of its saves.
C6_NoReloadInsideSweep ==
    [][\A k \in PullRequests : \A n \in DOMAIN workers[k] :
         RecheckReload(k, n)
           => \A s \in DOMAIN sweeps : ~BetweenClearAndSave(sweeps[s])]_vars

Entries(list) == {list[x] : x \in DOMAIN list}

KeyLess(p, q) ==
    \/ RepoRank(p.Repo) < RepoRank(q.Repo)
    \/ p.Repo = q.Repo /\ p.Number < q.Number

\* C11: a step of a sweep leaves the rows of every repository outside its batch
\* as they are; it leaves the cache as it is unless it is the merge, and after
\* the merge the cache holds its former entries of the repositories outside the
\* batch and the new entries, and nothing else, in the order of (repository,
\* number).
C11_SweepKeepsOtherRepos ==
    [][\A s \in DOMAIN sweeps :
         s \in DOMAIN sweeps' /\ sweeps'[s] # sweeps[s]
           => LET sw == sweeps[s]
                  batch == Entries(sw.repos)
                  kept == {p \in Entries(prs) : p.Repo \notin batch}
              IN  /\ \A repo \in RepoSet \ batch : RepoRows(rows', repo) = RepoRows(rows, repo)
                  /\ IF sw.pc = "merge"
                     THEN /\ Entries(prs') = kept \cup Entries(sw.newPRsFromRepos)
                          /\ Len(prs') = Cardinality(kept) + Len(sw.newPRsFromRepos)
                          /\ \A x, y \in DOMAIN prs' : x < y => ~KeyLess(prs'[y], prs'[x])
                     ELSE prs' = prs]_vars

\* A sweep of a/x alone has merged what it fetched, and the cache and the
\* store still hold b/y#1.
C11_Witness ==
    \E s \in DOMAIN sweeps :
      /\ sweeps[s].pc = "done"
      /\ sweeps[s].repos = <<"a/x">>
      /\ sweeps[s].newPRsFromRepos # <<>>
      /\ \E x \in DOMAIN prs : prs[x].Repo = "b/y"
      /\ \E x \in DOMAIN prs : prs[x].Repo = "a/x"
      /\ RepoRows(rows, "b/y") # {}

-----------------------------------------------------------------------------
(* The notification poller's contract *)

Processing == {"item", "muted", "write", "mark", "reload", "assign", "return"}

\* C12: a tick whose request is answered 304 changes neither table state nor
\* the interval in use, writes nothing to table prs, marks no thread read and
\* leaves the poller idle with no notification to process.
C12_NotModifiedChangesNothing ==
    [][poller.pc = "idle" /\ poller'.passes # poller.passes /\ poller'.resp.status = "304"
         => /\ state' = state
            /\ poller'.pollInterval = poller.pollInterval
            /\ poller'.nextTick = now + poller.pollInterval
            /\ rows' = rows
            /\ prs' = prs
            /\ inbox' = inbox
            /\ poller'.pc = "idle"
            /\ poller'.notifications = <<>>
            /\ poller'.trace = <<>>]_vars

\* The last request was conditional and answered 304 while threads were unread.
C12_Witness ==
    /\ poller.pc = "idle"
    /\ poller.passes >= 1
    /\ poller.resp.status = "304"
    /\ poller.sent # <<>>
    /\ inbox # {}

\* the seconds of the X-Poll-Interval values that are positive numbers
Suggested == (<<"6", "0">> :> 60) @@ (<<"1", "2", "0">> :> 120)

Suggests(resp) ==
    resp.status = "200" /\ resp.lastModified # <<>> /\ resp.pollInterval \in DOMAIN Suggested

\* C15: after a 200 with a Last-Modified and a positive X-Poll-Interval, table
\* state holds both values as long as notifications of that response are
\* processed; when the poll returns the ticker is reset to the suggested
\* interval, which stays in use; the next request sends that Last-Modified.
C15_HeadersStoredAndAdopted ==
    /\ [](poller.pc \in Processing /\ Suggests(poller.resp)
            => /\ dbGetState(state, LastModifiedKey) = poller.resp.lastModified
               /\ dbGetState(state, PollIntervalKey) = poller.resp.pollInterval)
    /\ [][poller.pc = "return" /\ poller'.pc = "idle" /\ Suggests(poller.resp)
            => poller'.nextTick = now + Suggested[poller.resp.pollInterval] * Second]_vars
    /\ [](poller.pc = "idle" /\ Suggests(poller.resp)
            => poller.pollInterval = Suggested[poller.resp.pollInterval] * Second)
    /\ [][poller.pc = "idle" /\ poller'.passes # poller.passes /\ Suggests(poller.resp)
            => poller'.sent = poller.resp.lastModified]_vars

\* The second request carried the Last-Modified of the first response, and its
\* response's interval of 60 seconds is in use in place of the 120 that was stored.
C15_Witness ==
    /\ poller.pc = "idle"
    /\ poller.passes = 2
    /\ poller.sent = LM2
    /\ poller.resp.pollInterval = <<"6", "0">>
    /\ poller.pollInterval = 60 * Second
    /\ dbGetState(state, PollIntervalKey) = <<"6", "0">>

\* the notification the loop of processNotifications is at
Item == poller.notifications[poller.n]

InLoop == poller.pc \in {"item", "muted", "write", "mark"}

\* a notification of type PullRequest, of a tracked repository, whose subject
\* URL ends in a number
OfTrackedPR(nt) ==
    nt.type = "PullRequest" /\ nt.repo \in repoSet /\ extractPRNumber(nt.url).ok

Events(kind, n) == {i \in DOMAIN poller.trace : poller.trace[i] = <<kind, n>>}

\* C13: when markThreadRead is called for a notification of a pull request of
\* a tracked repository that is neither ignored nor muted, the pull request
\* was fetched and classified and table prs was written for it in this pass.
C13_ReadOnlyAfterStoreUpdate ==
    [][poller.pc = "mark" /\ poller'.pc # "mark" /\ OfTrackedPR(Item)
         => LET number == extractPRNumber(Item.url).n IN
            ~dbIsIgnored(rows, Item.repo, number) /\ ~dbIsMuted(rows, Item.repo, number)
              => Events("write", poller.n) # {}]_vars

\* C14: while a page of notifications is processed, markThreadRead has been
\* called once for every notification the loop is done with and not yet for
\* the others, and for each notification it comes after every write to table
\* prs made for it.
C14_MarkedOnceAfterWrite ==
    poller.pc \in Processing =>
        \A n \in DOMAIN poller.notifications :
            /\ Cardinality(Events("mark", n)) = IF n < poller.n \/ ~InLoop THEN 1 ELSE 0
            /\ \A i \in Events("write", n) \cup Events("unmute", n) :
                   \A j \in Events("mark", n) : i < j

\* The loop is over for a page of two: the first notification took the path
\* that writes, the second, not of a pull request, was passed over.
C14_Witness ==
    /\ poller.pc = "reload"
    /\ Len(poller.notifications) = 2
    /\ poller.notifications[2].type = "Issue"
    /\ poller.trace = <<<<"write", 1>>, <<"mark", 1>>, <<"mark", 2>>>>

\* C16: the write for a fetched pull request that is neither ignored nor muted
\* touches the row of its key alone: no row is left when the pull request is
\* not open, is a draft or is not of a tracked author, or when both flags of
\* checkReviewStatus are false; otherwise one row holds exactly those flags.
C16_NotifiedPRStored ==
    [][poller.pc = "write" /\ poller'.pc = "mark"
         => LET pr == poller.pr
                number == poller.prNumber
                flags == poller'.flags
                after == RowsOf(rows', Item.repo, number)
            IN  ~dbIsIgnored(rows, Item.repo, number) /\ ~dbIsMuted(rows, Item.repo, number)
                  => /\ rows' \ after = rows \ RowsOf(rows, Item.repo, number)
                     /\ IF pr.state # "open" \/ pr.draft \/ pr.author \notin authorSet
                        THEN after = {}
                        ELSE IF flags[1] \/ flags[2]
                        THEN /\ Cardinality(after) = 1
                             /\ \A r \in after :
                                    /\ r.needs_review = flags[1]
                                    /\ r.needs_reapproval = flags[2]
                                    /\ r.author = pr.author
                                    /\ ~r.ignored /\ ~r.muted
                        ELSE after = {}]_vars

\* The row of a/x#1, stored as needing review, was rewritten as needing
\* re-approval.
C16_Witness ==
    /\ poller.pc = "mark"
    /\ Item.repo = "a/x"
    /\ poller.flags = <<FALSE, TRUE>>
    /\ \E r \in RowsOf(rows, "a/x", 1) : r.needs_reapproval /\ ~r.needs_review

\* C17: no step made for a notification of an ignored pull request changes
\* table prs. For a muted one the only change is the clearing of its muted
\* flag, made exactly when review is requested of the user again, after which
\* the item goes on to the write as one that is not muted; when review is not
\* requested the item goes to markThreadRead.
C17_MutedAndIgnoredKept ==
    [][InLoop /\ OfTrackedPR(Item)
         => LET number == extractPRNumber(Item.url).n
                row == RowsOf(rows, Item.repo, number)
            IN  /\ dbIsIgnored(rows, Item.repo, number) => rows' = rows
                /\ dbIsMuted(rows, Item.repo, number) /\ ~dbIsIgnored(rows, Item.repo, number)
                     => IF poller.pc = "muted" /\ poller.pr.requested
                        THEN /\ rows' = (rows \ row) \cup {[r EXCEPT !.muted = FALSE] : r \in row}
                             /\ poller'.pc = "write"
                        ELSE /\ rows' = rows
                             /\ poller.pc = "muted" => poller'.pc = "mark"]_vars

\* The muted a/x#1 was un-muted because review is requested again, and is at
\* the write.
C17_Witness ==
    /\ poller.pc = "write"
    /\ poller.pr.requested
    /\ poller.trace # <<>>
    /\ poller.trace[Len(poller.trace)] = <<"unmute", poller.n>>
    /\ \E r \in RowsOf(rows, "a/x", 1) : ~r.muted

-----------------------------------------------------------------------------
(* The classifier's contract *)

\* the call has returned, and ListReviews answered without error
Classified == statusCall.result # <<>> /\ ~statusCall.reviewsErr

\* review i is its reviewer's latest: none of the reviewer's is later and, of
\* those submitted at the same time, it is listed first
IsLatest(reviews, i) ==
    \A j \in DOMAIN reviews :
        reviews[j].user = reviews[i].user
          => \/ reviews[j].at < reviews[i].at
             \/ reviews[j].at = reviews[i].at /\ i <= j

ApprovedLatest(reviews) ==
    {i \in DOMAIN reviews : IsLatest(reviews, i) /\ reviews[i].state = "APPROVED"}

\* the maximum submission time among the latest reviews that approve
ApprovalTime(reviews) ==
    LET times == {reviews[i].at : i \in ApprovedLatest(reviews)}
    IN  CHOOSE t \in times : \A u \in times : u <= t

\* no reviewer has two reviews submitted at the same time
NoTies(reviews) ==
    \A i, j \in DOMAIN reviews :
        i # j /\ reviews[i].user = reviews[j].user => reviews[i].at # reviews[j].at

Reorder(list, f) == [i \in DOMAIN list |-> list[f[i]]]

Orders(list) == Permutations(DOMAIN list)

\* C18: when the list of reviews is empty, or no reviewer's latest review has
\* state APPROVED, the classifier returns needsReview = true and
\* needsReapproval = false.
C18_NoApprovalNeedsReview ==
    Classified /\ ApprovedLatest(statusCall.reviews) = {}
      => statusCall.result = <<TRUE, FALSE>>

\* r1 approved and later asked for changes; nobody else reviewed.
C18_Witness ==
    /\ statusCall.result = <<TRUE, FALSE>>
    /\ statusCall.reviews = <<[user |-> "r1", state |-> "APPROVED", at |-> 1],
                              [user |-> "r1", state |-> "CHANGES_REQUESTED", at |-> 2]>>

\* C19: when some reviewer's latest review is APPROVED and the list of commits
\* was fetched and holds no commit with a time after the latest such approval,
\* the classifier returns (false, false); a commit at exactly that time counts
\* as not after it.
C19_ApprovedAndCurrent ==
    /\ Classified
    /\ ~statusCall.commitsErr
    /\ ApprovedLatest(statusCall.reviews) # {}
    /\ \A c \in DOMAIN statusCall.commits :
           statusCall.commits[c] <= ApprovalTime(statusCall.reviews)
    => statusCall.result = <<FALSE, FALSE>>

\* The last commit was made at the very time of the approval.
C19_Witness ==
    /\ statusCall.result = <<FALSE, FALSE>>
    /\ ~statusCall.commitsErr
    /\ statusCall.reviews = <<[user |-> "r1", state |-> "APPROVED", at |-> 1]>>
    /\ statusCall.commits = <<0, 1>>

\* C20: when some reviewer's latest review is APPROVED and the list of commits
\* was fetched and holds a commit with a time after the latest such approval,
\* the classifier returns (false, true), and would for the same commits listed
\* in any order and, no reviewer having two reviews of one time, for the same
\* reviews listed in any order.
C20_CommitAfterApproval ==
    /\ Classified
    /\ ~statusCall.commitsErr
    /\ ApprovedLatest(statusCall.reviews) # {}
    /\ \E c \in DOMAIN statusCall.commits :
           statusCall.commits[c] > ApprovalTime(statusCall.reviews)
    => /\ statusCall.result = <<FALSE, TRUE>>
       /\ \A g \in Orders(statusCall.commits) :
              /\ checkReviewStatus(FALSE, statusCall.reviews,
                                   FALSE, Reorder(statusCall.commits, g)) = <<FALSE, TRUE>>
              /\ NoTies(statusCall.reviews)
                   => \A f \in Orders(statusCall.reviews) :
                          checkReviewStatus(FALSE, Reorder(statusCall.reviews, f),
                                            FALSE, Reorder(statusCall.commits, g))
                            = <<FALSE, TRUE>>

\* Two reviewers approved, the later one listed first; of the two commits the
\* one made after that approval is listed last.
C20_Witness ==
    /\ statusCall.result = <<FALSE, TRUE>>
    /\ statusCall.reviews = <<[user |-> "r2", state |-> "APPROVED", at |-> 1],
                              [user |-> "r1", state |-> "APPROVED", at |-> 0]>>
    /\ statusCall.commits = <<0, 2>>

\* C21: when ListReviews fails the classifier returns (true, false); when it
\* succeeds, some reviewer's latest review is APPROVED and ListCommits fails,
\* the classifier returns (false, false).
C21_FailurePolicy ==
    statusCall.result # <<>> =>
        /\ statusCall.reviewsErr => statusCall.result = <<TRUE, FALSE>>
        /\ ~statusCall.reviewsErr /\ ApprovedLatest(statusCall.reviews) # {}
             /\ statusCall.commitsErr
             => statusCall.result = <<FALSE, FALSE>>

\* r1's approval stands and the commits could not be listed.
C21_Witness ==
    /\ statusCall.result = <<FALSE, FALSE>>
    /\ ~statusCall.reviewsErr
    /\ statusCall.commitsErr
    /\ statusCall.reviews = <<[user |-> "r1", state |-> "CHANGES_REQUESTED", at |-> 0],
                              [user |-> "r1", state |-> "APPROVED", at |-> 1]>>

-----------------------------------------------------------------------------
(* The recheck schedule and the checks of a worker *)

\* C22: the schedule has 26 entries, ten of 1 minute, then ten of 2 minutes,
\* then six of 5 minutes, and recheckTotalDuration is 60 minutes; a worker
\* that began with nothing elapsed makes its checks in the order of the
\* schedule, 26 at most.
C22_ScheduleOfSixtyMinutes ==
    /\ Len(recheckSchedule) = 26
    /\ \A i \in 1..10 : recheckSchedule[i] = 1 * Minute
    /\ \A i \in 11..20 : recheckSchedule[i] = 2 * Minute
    /\ \A i \in 21..26 : recheckSchedule[i] = 5 * Minute
    /\ recheckTotalDuration = 60 * Minute
    /\ \A k \in PullRequests : \A n \in ScheduleWorkers(k) :
         LET w == workers[k][n] IN
         w.pc # "start" /\ w.e0 = 0
           => /\ Len(w.checks) <= 26
              /\ \A j \in DOMAIN w.checks : w.checks[j] = <<j, FALSE>>

\* A worker that began with nothing elapsed has made its 26th check, 60
\* minutes after startedAt.
C22_Witness ==
    \E k \in PullRequests : \E n \in ScheduleWorkers(k) :
      /\ workers[k][n].e0 = 0
      /\ Len(workers[k][n].checks) = 26
      /\ now = workers[k][n].startedAt + 60 * Minute

\* the loop of runRecheckLoop went on, or ended because the schedule is exhausted
WentOn(w) ==
    \/ w.pc \in {"sleep", "check"}
    \/ w.pc = "exit" /\ w.i > Len(recheckSchedule)

\* C23: for a worker's check: finding the pull request ignored ends the loop
\* with table prs as it was; a pull request that is not open, a draft, not of
\* a tracked author, or needs neither review nor re-approval has its row
\* removed and ends the loop; a failed fetch writes nothing and a pull request
\* that needs attention is saved, and in both cases the loop goes on until the
\* schedule is exhausted.  When the loop has ended the task is removed, then
\* the worker is gone.
C23_CheckEndsOrGoesOn ==
    [][\A k \in PullRequests : \A n \in ScheduleWorkers(k) :
         LET w == workers[k][n]
             gone == n \notin DOMAIN workers'[k]
             v == workers'[k][n]
             stops == w.out \in {"gone", "resolved"}
         IN  (gone \/ v # w) =>
             /\ w.pc \in {"check", "write", "reload", "assign", "exit"} => ~gone
             /\ w.pc = "check" /\ dbIsIgnored(rows, k[1], k[2])
                  => v.pc = "exit" /\ rows' = rows
             /\ w.pc = "check" /\ ~dbIsIgnored(rows, k[1], k[2])
                  => /\ rows' = rows
                     /\ v.pc = "write" \/ WentOn(v)
             /\ w.pc = "write"
                  => /\ v.pc = "reload"
                     /\ IF stops THEN RowsOf(rows', k[1], k[2]) = {}
                        ELSE \E r \in RowsOf(rows', k[1], k[2]) :
                               /\ r.needs_review = (w.out = "review")
                               /\ r.needs_reapproval = (w.out = "reapproval")
             /\ w.pc = "assign" => IF stops THEN v.pc = "exit" ELSE WentOn(v)
             /\ w.pc = "exit"
                  => v.pc = "unregister" /\ RowsOf(rechecks', k[1], k[2]) = {}
             /\ w.pc = "unregister" => gone /\ k \notin activeRechecks']_vars

\* After a check that found b/y#1 still in need of review, a later check found
\* it resolved: its row is removed and the loop has ended before the schedule.
C23_Witness ==
    \E n \in ScheduleWorkers(<<"b/y", 1>>) :
      LET w == workers[<<"b/y", 1>>][n] IN
      /\ w.pc = "exit"
      /\ w.i <= Len(recheckSchedule)
      /\ Len(w.checks) >= 2
      /\ RowsOf(rows, "b/y", 1) = {}
      /\ RowsOf(rechecks, "b/y", 1) # {}

\* C24: every worker ends: a key that has a worker comes to have none; no
\* worker is under way later than recheckTotalDuration after its startedAt;
\* the worker's last two steps remove the task of its key and then its key
\* from the guard set, which holds no key without a worker, so that the
\* startRecheck of a later scheduleRecheck starts a worker with the time of
\* the call.
C24_WorkerEnds ==
    /\ \A k \in PullRequests : (workers[k] # <<>>) ~> (workers[k] = <<>>)
    /\ [](\A k \in PullRequests :
            /\ \A n \in ScheduleWorkers(k) :
                 now - workers[k][n].startedAt <= recheckTotalDuration
            /\ k \in activeRechecks => ScheduleWorkers(k) # {})
    /\ [][\A k \in PullRequests : \A n \in ScheduleWorkers(k) :
            /\ workers[k][n].pc = "exit" /\ workers'[k] # workers[k]
                 => RowsOf(rechecks', k[1], k[2]) = {}
            /\ workers'[k] = <<>>
                 => workers[k][n].pc = "unregister" /\ k \notin activeRechecks']_vars
    /\ [][\A k \in PullRequests :
            calls'[k][2] < calls[k][2] /\ workers[k] = <<>>
              => /\ Len(workers'[k]) = 1
                 /\ workers'[k][1].kind = "schedule"
                 /\ workers'[k][1].startedAt = now
                 /\ k \in activeRechecks']_vars

\* The worker resumed for b/y#1 has ended and a click made after that has
\* started another, which has made a check.
C24_Witness ==
    \E n \in ScheduleWorkers(<<"b/y", 1>>) :
      /\ workers[<<"b/y", 1>>][n].startedAt >= Epoch + Minute
      /\ Len(workers[<<"b/y", 1>>][n].checks) >= 1

\* C25: the task of a key that has a worker holds, to the second, the
\* startedAt the worker computes its elapsed time from.
C25_StartedAtAgrees ==
    \A k \in PullRequests : \A n \in ScheduleWorkers(k) :
      \A t \in RowsOf(rechecks, k[1], k[2]) :
        t.started_at = FormatRFC3339(workers[k][n].startedAt)

-----------------------------------------------------------------------------
(* The contract of the process start *)

\* C26: a run makes one probe and one choice, which stands: when the probe
\* was answered without error, notificationLoop and fullRefreshLoop are
\* started and legacySchedulerLoop is not; when there is no default client or
\* the probe was answered 403, 401 or another error, legacySchedulerLoop alone
\* is started, and then the run neither polls for notifications nor makes
\* the cleanup's requests.  onReady goes on in both cases.
C26_OneStrategy ==
    /\ [](/\ boot.probes <= 1
          /\ boot.pc # "done" => boot.loops = {}
          /\ boot.pc = "done" =>
               boot.loops = IF boot.answer = "ok"
                            THEN {"notificationLoop", "fullRefreshLoop"}
                            ELSE {"legacySchedulerLoop"}
          /\ "notificationLoop" \notin boot.loops
               => /\ poller.pc = "off"
                  /\ poller.passes = 0
                  /\ boot.cleanup = "")
    /\ [][boot.loops # {} /\ boot'.run = boot.run => boot'.loops = boot.loops]_vars
    /\ [][boot.pc = "choose" /\ boot'.run = boot.run
            => boot'.pc = "done" /\ boot'.loops # {}]_vars

\* The probe was answered 403: the fallback loop made its refresh, onReady
\* went on to resume the rechecks, and no poll was made.
C26_Witness ==
    /\ boot.answer = "forbidden"
    /\ boot.loops = {"legacySchedulerLoop"}
    /\ "legacySchedulerLoop" \in boot.refreshed
    /\ \A s \in DOMAIN sweeps : sweeps[s].pc = "done"
    /\ resumed
    /\ poller.pc = "off"

\* C27: MarkNotificationsRead is called at most once over all runs, and a run
\* that called it has set the flag before it ended.
C27_CleanupAtMostOnce ==
    /\ Len(boot.marked) <= 1
    /\ \A i \in DOMAIN boot.marked :
         boot.marked[i] < boot.run
           => \E j \in DOMAIN boot.flagged : boot.flagged[j] = boot.marked[i]

-----------------------------------------------------------------------------
(* Failures within a cycle *)

\* C28: when dbSavePR has returned an error in a sweep, the sweep leaves the
\* rows of that pull request as they were before it began, and the cache
\* without an entry for a pull request that has no active row.
C28_FailedWriteLeavesStoreAsBefore ==
    \A s \in DOMAIN sweeps :
      sweeps[s].pc = "done" =>
        \A k \in sweeps[s].unsaved :
          /\ RowsOf(rows, k[1], k[2]) = RowsOf(InitialRows, k[1], k[2])
          /\ (\E x \in DOMAIN prs : prs[x].Repo = k[1] /\ prs[x].Number = k[2])
               => \E r \in ActiveRows(rows) : KeyOf(r) = k

\* C29: a notification that is passed over before or at PullRequests.Get (its
\* subject URL has no number, there is no client, the fetch fails) gets no
\* write of the store, the loop goes on to the notification after it, and
\* when the loop is through every notification of the batch has been dealt
\* with; a turn of the first loop of a sweep, its listing failed or not, goes
\* on to the next repository, and the loop ends after the last one only.
C29_FailureDoesNotStopTheCycle ==
    /\ [](poller.pc = "mark" /\ poller.pr.err
            => Events("write", poller.n) = {} /\ Events("unmute", poller.n) = {})
    /\ [][poller.pc = "item" /\ poller'.pc = "mark" => rows' = rows]_vars
    /\ [][poller.pc = "mark" /\ poller.pr.err /\ poller'.pc # "mark"
            => IF poller.n < Len(poller.notifications)
               THEN /\ poller'.pc = "item"
                    /\ poller'.n = poller.n + 1
                    /\ poller'.notifications = poller.notifications
               ELSE poller'.pc \in {"reload", "return"}]_vars
    /\ [](poller.pc \in {"reload", "assign", "return"}
            => \A n \in DOMAIN poller.notifications : Events("mark", n) # {})
    /\ [][\A s \in DOMAIN sweeps :
            sweeps[s].pc = "fetch" /\ sweeps'[s] # sweeps[s]
              => LET sw == sweeps[s] IN
                 IF sw.i < Len(sw.repos)
                 THEN sweeps'[s].pc = "fetch" /\ sweeps'[s].i = sw.i + 1
                 ELSE sweeps'[s].pc = "clear"]_vars

\* The fetch of a/x#1 failed and the notification of b/y#1 after it was
\* written; the listing of a/x failed and b/y#1 was fetched after it.
C29_Witness ==
    /\ poller.pc = "return"
    /\ Len(poller.notifications) = 2
    /\ poller.notifications[1].id = 1
    /\ Events("mark", 1) # {} /\ Events("write", 1) = {}
    /\ Events("write", 2) # {}
    /\ \E s \in DOMAIN sweeps :
         /\ sweeps[s].pc = "done"
         /\ sweeps[s].failed = {"a/x"}
         /\ \E y \in DOMAIN sweeps[s].newPRsFromRepos :
              sweeps[s].newPRsFromRepos[y].Repo = "b/y"

-----------------------------------------------------------------------------
(* The contract of fetchRepoPRs *)

\* what checkReviewStatus returns for a pull request of the listing
FlagsOf(pr) == checkReviewStatus(pr.status[1], pr.status[2], pr.status[3], pr.status[4])

\* the positions of the listing whose pull request is by a tracked author, not
\* created before the cutoff, no draft, not ignored, and in need of a review
\* or of a new approval
Admitted ==
    {x \in DOMAIN listCall.pulls :
       LET pr == listCall.pulls[x] IN
       /\ pr.author \in Authors
       /\ pr.createdAt >= listCall.cutoff
       /\ ~pr.draft
       /\ ~dbIsIgnored(rows, listCall.repo, pr.number)
       /\ FlagsOf(pr)[1] \/ FlagsOf(pr)[2]}

\* C30: when the listing of the open pull requests succeeded, fetchRepoPRs
\* returns one record for each admitted pull request and no other record, and
\* the record has the flags checkReviewStatus returned for the pull request.
C30_ExactlyTheAdmitted ==
    listCall.done /\ HasClient(listCall.repo) /\ ~listCall.err
    => /\ \A x \in Admitted :
            \E y \in DOMAIN listCall.result :
              LET pr == listCall.pulls[x]
                  info == listCall.result[y] IN
              /\ info.Repo = listCall.repo
              /\ info.Number = pr.number
              /\ info.Author = pr.author
              /\ info.NeedsReview = FlagsOf(pr)[1]
              /\ info.NeedsReapproval = FlagsOf(pr)[2]
       /\ \A y \in DOMAIN listCall.result :
            \E x \in Admitted : listCall.pulls[x].number = listCall.result[y].Number
       /\ Len(listCall.result) = Cardinality(Admitted)

\* Of two pull requests by alice, the one created at the cutoff with a commit
\* after its approval is returned and the draft is not.
C30_Witness ==
    /\ listCall.done /\ HasClient(listCall.repo) /\ ~listCall.err
    /\ Len(listCall.pulls) = 2
    /\ listCall.pulls[1].author = "alice" /\ listCall.pulls[1].draft
    /\ listCall.pulls[1].createdAt = listCall.cutoff
    /\ listCall.pulls[2].author = "alice" /\ ~listCall.pulls[2].draft
    /\ listCall.pulls[2].createdAt = listCall.cutoff
    /\ Len(listCall.result) = 1
    /\ listCall.result[1].Number = listCall.pulls[2].number
    /\ listCall.result[1].NeedsReapproval /\ ~listCall.result[1].NeedsReview

-----------------------------------------------------------------------------
(* What the store and the cache hold, whatever runs beside what *)

\* C31: every row of table prs that is neither ignored nor muted has
\* needs_review or needs_reapproval set.
C31_ActiveRowsNeedAttention ==
    \A r \in ActiveRows(rows) : r.needs_review \/ r.needs_reapproval

\* no sweep, notification pass or recheck check is under way
Quiet ==
    /\ \A s \in DOMAIN sweeps : sweeps[s].pc = "done"
    /\ poller.pc \in {"off", "idle"}
    /\ \A k \in PullRequests : \A n \in DOMAIN workers[k] :
         workers[k][n].pc \notin {"check", "write", "reload", "assign"}

\* C32: when nothing is under way, prs is what dbLoadActivePRs returns: the
\* same records in the same order.
C32_CacheIsTheActiveView == Quiet => prs = dbLoadActivePRs(rows)

-----------------------------------------------------------------------------
(* The priority scheduler's deadlines *)

\* C33: a deadline the scheduler computes for a repository of interval I at
\* time now lies in [now + 0.8 * I, now + 1.2 * I].
C33_JitterBound ==
    [][nextPoll # NoDeadlines =>
         \A repo \in RepoSet :
           nextPoll'.deadline[repo] # nextPoll.deadline[repo]
             => /\ 10 * (nextPoll'.deadline[repo] - now) >= 8 * PollIntervalOf(repo)
                /\ 10 * (nextPoll'.deadline[repo] - now) <= 12 * PollIntervalOf(repo)]_vars

\* b/y was swept and got a deadline at the upper end, 1.2 * I after the tick,
\* and a/x one at the lower end.
C33_Witness ==
    /\ nextPoll # NoDeadlines
    /\ 10 * (nextPoll.deadline["b/y"] - (nextPoll.tickAt - SchedulerTickInterval))
         = 12 * PollIntervalOf("b/y")
    /\ \E t \in Epoch..now : 10 * (nextPoll.deadline["a/x"] - t) = 8 * PollIntervalOf("a/x")
    /\ now > Epoch + PollIntervalOf("b/y")

-----------------------------------------------------------------------------
(* Clicks beside workers *)

\* C34: when scheduleRecheck returns, having written its task, and there is
\* a client for the repository, a goroutine of the key has a check under way
\* or ahead of it: the check that follows the call.
C34_CallIsFollowedByCheck ==
    [][\A k \in PullRequests :
         calls'[k][2] < calls[k][2] /\ HasClient(k[1]) => Checking(workers', k)]_vars

\* the table rechecks holds a task of the key
HasTask(tbl, k) == \E e \in tbl : e.repo = k[1] /\ e.number = k[2]

\* C35: as long as a goroutine started by startRecheck for a key has not run
\* its own deferred dbRemoveRecheck, table rechecks holds the task of the key.
C35_TaskStaysWhileWorkerRuns ==
    \A k \in PullRequests : \A n \in DOMAIN workers[k] :
        workers[k][n].kind = "schedule" /\ workers[k][n].pc # "unregister"
            => HasTask(rechecks, k)

-----------------------------------------------------------------------------
(* Ignoring beside the sweep, the poller and the workers *)

\* the list holds an entry of the key
Shows(list, k) == \E i \in DOMAIN list : list[i].Repo = k[1] /\ list[i].Number = k[2]

\* C36: a pull request whose ignorePR call has returned is not in prs, until
\* clearIgnored is called.
C36_IgnoredStaysOutOfCache == \A k \in ignores.returned : ~Shows(prs, k)

\* C37: a pull request that ignorePR has written as ignored is ignored in
\* table prs, until clearIgnored is called.
C37_IgnoredStaysIgnored == \A k \in ignores.persisted : dbIsIgnored(rows, k[1], k[2])

-----------------------------------------------------------------------------
(* The checks of one worker *)

\* C38: the checks of a worker of startRecheck are at most one per offset of
\* the schedule, in the order of the offsets, and so at most as many as the
\* schedule has offsets, 26; a check that is not a catch-up check is made at
\* startedAt + offset or later; and a worker whose startedAt is not before
\* the process start, as that of a worker scheduleRecheck started, makes no
\* catch-up check.
C38_ChecksFollowTheSchedule ==
    \A k \in PullRequests : \A n \in DOMAIN workers[k] :
        LET w == workers[k][n]
            made == w.checks
        IN  w.kind = "schedule" =>
              /\ \A a \in DOMAIN made : made[a][1] \in DOMAIN recheckSchedule
              /\ \A a, b \in DOMAIN made : a < b => made[a][1] < made[b][1]
              /\ Len(made) <= 26
              /\ w.pc = "check" /\ ~made[Len(made)][2]
                     => now >= w.startedAt + Offset(made[Len(made)][1])
              /\ w.startedAt >= Epoch => \A a \in DOMAIN made : ~made[a][2]

\* a worker that a click started is at its 26th check, at the end of its
\* schedule
C38_Witness ==
    \E k \in PullRequests : \E n \in DOMAIN workers[k] :
        LET w == workers[k][n] IN
        /\ w.kind = "schedule"
        /\ w.startedAt > Epoch
        /\ Len(w.checks) = 26
        /\ w.pc = "check"
        /\ now = w.startedAt + recheckTotalDuration

-----------------------------------------------------------------------------
(* The two flags *)

\* exactly one of the record's two flags is set
OneFlag(pr) == pr.NeedsReview # pr.NeedsReapproval

\* C39: checkReviewStatus never returns (true, true), whatever ListReviews and
\* ListCommits answer; so the records fetchRepoPRs returns and a sweep holds,
\* the flags a notification pass stores, and every row that a dbSavePR wrote
\* have exactly one of the two flags set.
C39_NeverBothFlags ==
    /\ statusCall.result # <<>> => ~(statusCall.result[1] /\ statusCall.result[2])
    /\ \A y \in DOMAIN listCall.result : OneFlag(listCall.result[y])
    /\ \A s \in DOMAIN sweeps : \A y \in DOMAIN sweeps[s].newPRsFromRepos :
           OneFlag(sweeps[s].newPRsFromRepos[y])
    /\ poller.flags # <<>> => ~(poller.flags[1] /\ poller.flags[2])
    /\ \A r \in rows : r.title # "" => r.needs_review # r.needs_reapproval

\* r1 asked for changes, r2 approved, and a commit came after the approval:
\* re-approval is needed, and no review
C39_Witness ==
    /\ statusCall.result = <<FALSE, TRUE>>
    /\ statusCall.reviews = <<[user |-> "r1", state |-> "CHANGES_REQUESTED", at |-> 0],
                              [user |-> "r2", state |-> "APPROVED", at |-> 1]>>
    /\ statusCall.commits = <<2>>

-----------------------------------------------------------------------------
(* The age of what is stored *)

\* C40: a pull request created before the cutoff is not held as an active
\* row of table prs, whichever of the sweep, the notification pass and the
\* recheck check reached it.
C40_NoOldPullIsActive ==
    \A x \in DOMAIN listCall.pulls :
        listCall.pulls[x].createdAt < Cutoff(Epoch)
            => \A r \in ActiveRows(rows) :
                   KeyOf(r) # <<listCall.repo, listCall.pulls[x].number>>

====
